---- MODULE Spec2Model ----
(***************************************************************************)
(* A model of the FluidTextureSim engine (FluidSimulator) and of its       *)
(* interactive driver (App).                                               *)
(*                                                                         *)
(* Numbers.  The engine computes in IEEE doubles; the model computes in    *)
(* integers with fixed scales, rounding towards minus infinity:            *)
(*   positions            pixels                                           *)
(*   velocities           pixels per second                                *)
(*   mass, grid height    thousandths                                      *)
(*   time (dt, age, life) milliseconds                                     *)
(*   ratios (viscosity, turbulence, randomness, ...) hundredths            *)
(*   angles               degrees, trigonometry on a 15 degree lattice     *)
(*   random()             hundredths, the exact values of                  *)
(*                        frac(sin(seed) * 10000) for seed = 1337, 1338 .. *)
(* Canvas drawing (surfaceCtx, maskCtx, gridCtx) is rendering and is left  *)
(* out; every logical buffer the engine owns is modelled.                  *)
(***************************************************************************)
EXTENDS Integers, Sequences, FiniteSets, TLC

(***************************************************************************)
(* Bounds of the model.                                                    *)
(***************************************************************************)
\* canvas size handed to the constructor (the driver uses 1024 x 1024)
CanvasW == 16
CanvasH == 16
\* particle capacity, scaled down from the engine's 6000
MaxParticles == 3
\* number of engine calls in one behaviour
MaxOps == 4
\* number of random() draws since the seed was last set (RandTable holds the
\* first 1200 values of the generator)
MaxDraws == 1000

(***************************************************************************)
(* Program constants.                                                      *)
(***************************************************************************)
InitialSeed == 1337
OobMargin == 100
GridCellSize == 20
NumBuckets == 3000
MaxInteractions == 20

\* mass <= 0.2 kills a particle (thousandths)
MassEpsilon == 200

(***************************************************************************)
(* Arithmetic helpers.                                                     *)
(***************************************************************************)
Min(a, b) == IF a < b THEN a ELSE b
Max(a, b) == IF a > b THEN a ELSE b

\* Math.floor(n / d) for d > 0
FloorDiv(n, d) == IF n >= 0 THEN n \div d ELSE -((-n + d - 1) \div d)

\* Math.ceil(n / d) for d > 0
CeilDiv(n, d) == -FloorDiv(-n, d)

RECURSIVE SqrtSearch(_, _, _)
SqrtSearch(n, lo, hi) ==
    IF lo >= hi THEN lo
    ELSE LET mid == (lo + hi + 1) \div 2
         IN IF mid * mid <= n THEN SqrtSearch(n, mid, hi)
                              ELSE SqrtSearch(n, lo, mid - 1)

\* Math.floor(Math.sqrt(n))
ISqrt(n) == SqrtSearch(n, 0, 46340)

CosTable ==
    << 1000, 966, 866, 707, 500, 259, 0, -259, -500, -707, -866, -966,
       -1000, -966, -866, -707, -500, -259, 0, 259, 500, 707, 866, 966 >>

\* Math.cos and Math.sin in thousandths, the angle in degrees
Cos(deg) == CosTable[((deg % 360) \div 15) + 1]
Sin(deg) == Cos(deg - 90)

(***************************************************************************)
(* Deterministic RNG and noise.                                            *)
(***************************************************************************)
\* frac(sin(seed) * 10000) in hundredths, for seed = InitialSeed + k - 1
RandTable ==
    <<
      65, 85, 81, 75,  4, 18, 76, 91, 92, 66, 83, 60,  8, 85,  4, 80, 57, 30,  3, 21, 63, 61, 86, 95,
      69, 41, 43, 53, 57, 89, 64, 52, 60, 91, 88, 77,  7, 59, 59, 18, 41, 73,  3,  6, 36, 46, 30, 63,
      73, 14, 86, 73, 47, 50, 43, 78, 88, 19, 71, 29, 56, 30, 78,  3, 42, 66, 64, 87, 20,  9, 42, 74,
      90, 19, 71, 24,  4, 31, 58, 23, 60, 52, 94, 20, 36, 47,  0, 18,  9,  0, 77, 40,  8, 77, 10, 28,
      76, 23, 96, 81, 69, 92, 96, 94, 89, 28, 15, 72, 67, 36, 40, 89, 75, 86, 72, 27, 10, 80,  8,  5,
      54, 83, 27, 32, 58, 30, 92, 22, 66, 36, 53, 68, 83, 41, 18,  7, 14, 10, 47, 51, 73, 87, 45, 74,
      51,  0, 74, 73, 60, 28, 17, 25, 34, 67, 17,  6, 39, 74, 29,  7, 16, 75, 79, 98,  5, 43, 94,  8,
       5, 95, 50, 18, 30, 42, 67, 58, 56, 64, 49, 65, 96, 19, 97, 38, 33, 39, 94, 63, 35, 40,  0, 63,
      73, 36, 87, 59, 38, 55, 96, 44, 14, 70,  7,  9,  9,  8, 89,  1, 54,  4, 58, 54,  8, 49, 67,  3,
      25, 68, 48, 92, 25, 65, 66, 15, 59,  7, 61, 83, 51, 79, 48, 53, 24,  7, 67, 63, 29, 59, 29, 72,
      71, 97, 78,  7,  6, 74,  2, 29, 89, 85, 43, 17, 96, 62, 16, 74, 71, 95, 37, 72, 47, 17,  1, 75,
      90, 36, 65, 58,  8, 79, 38, 82, 23,  7, 11, 48, 18, 99, 72, 71, 32,  1, 44, 61, 30, 89, 66,  2,
      18, 85,  8, 63, 56, 11, 47, 45, 26, 11, 69, 71,  0, 35, 59, 18, 94, 91, 33,  8, 49, 74, 42, 95,
      48, 40, 27, 30, 43, 22, 88, 55, 19, 11,  7, 84, 87, 68, 35, 24,  7, 29, 61, 33, 54,  1, 20,  6,
      11, 91,  4, 87, 41, 47, 14, 51,  1, 70, 28, 37, 64, 92, 47, 96, 99, 72, 92, 26, 85, 94, 27, 22,
       7, 24, 83, 79, 27, 39, 69,  1, 95, 65,  5, 58, 99, 13, 66,  7, 17, 21, 32, 54, 54, 29, 20, 41,
      35, 63, 52, 17, 79,  2, 41, 22, 53, 24, 51, 41, 38, 26, 13, 55, 24, 46, 40, 53, 10, 13,  0, 24,
      45, 78, 50, 19, 60, 98, 57, 59, 99, 38, 83, 28, 13, 43, 41,  2, 86, 30, 99,  9,  5, 55, 80, 72,
      39, 32, 96, 69, 60, 89, 49, 47, 65, 29,  1, 81, 70, 99, 63, 18, 47, 89, 45, 96, 72, 26, 47, 38,
      87, 73, 93, 26,  2,  0, 14,  2, 44, 68, 39, 46,  8, 99, 47, 90, 45, 18, 98, 22, 87, 64, 87, 71,
      81, 91, 47, 17, 76, 76, 51,  7, 29, 58, 96, 13, 14, 51, 22, 99,  9, 78, 54, 56, 79, 95, 14, 56,
       1, 98, 61, 35, 13, 91, 22, 82, 20, 42, 68, 84, 50, 47,  5, 70, 28, 97, 12, 23, 16, 31, 51, 53,
      70, 62, 60, 34,  5, 28, 39, 31,  5,  0, 35, 39, 57, 29, 65, 71, 39, 70, 24, 44, 93, 27, 26, 31,
      26, 13, 85,  7, 23, 64, 66, 92, 17, 37,  0, 21, 66, 34, 66, 21, 61, 15, 65, 59, 45, 81, 25, 64,
       5, 11, 90, 69, 16, 36, 90, 21, 18, 75, 75, 82, 71,  2, 25, 88, 70, 85, 13, 98, 84, 31, 21, 15,
      19, 69, 46, 12, 40, 82, 84, 79,  9, 76, 47, 57, 14, 44, 97, 37, 96, 28, 42, 98, 33, 13, 48, 20,
      44, 59, 91, 50, 90, 12, 79, 87, 79, 98, 18, 85, 28, 69, 23, 39, 92, 44, 27,  2,  8, 63, 12, 46,
      14, 79, 55, 48, 60, 24, 49, 28, 74, 22, 51, 91, 23, 97,  9, 39, 95, 36, 11, 79, 82, 70, 42, 30,
      75, 36, 72, 86, 66, 62,  5, 31, 61, 78, 60, 61, 53, 49, 96, 66, 91, 51, 69, 91, 35, 21, 14, 33,
      24, 79, 70, 27, 39, 52, 32, 22, 22, 82, 20, 89, 97, 86, 80, 42, 28, 68, 50, 66, 74, 41, 48, 77,
      38,  1, 89, 23, 64,  7, 26, 70, 69, 44, 22,  2, 71, 38, 22, 48, 98,  5, 59, 39,  8, 42,  5, 49,
       7, 38, 47, 33, 91, 78, 75, 49, 44, 66, 52,  4, 76, 55, 19, 63, 85, 24,  3, 59, 98, 20, 71, 58,
      31, 55, 24, 70, 45, 28,  1,  6, 47, 30, 74, 17, 97, 25, 90, 69, 16, 15, 49, 89, 75, 84,  0, 27,
      26, 80, 68, 22, 40, 79, 27, 58, 22, 31, 53, 27, 10, 79, 31, 32, 50, 23, 52, 32, 56, 19, 56, 67,
      83, 98, 27, 75, 23, 31, 30, 96, 27, 77,  9, 29, 53, 98,  0, 41, 43, 92, 98,  6, 25, 82, 98, 10,
      93, 29,  1, 99, 63, 98, 59, 60, 48,  3, 27, 94, 98, 17, 35, 41, 34, 96, 26, 68, 86, 51, 94,  5,
      98, 48, 94, 84, 85, 56, 14, 23, 25, 91, 52,  0,  9, 67, 46, 72, 85, 79, 61, 15,  7, 20, 75, 23,
      93, 55, 40, 69,  0, 90, 87, 45, 47,  6, 21, 81, 59, 86, 38, 76, 57, 86, 98, 92, 76, 85, 71, 82,
      63, 58,  6, 56, 35, 96,  2, 61, 72, 12, 49, 27,  2, 64, 55, 40, 88, 56, 46, 23,  9,  3,  2, 58,
      65, 35,  5, 84,  0, 96, 10, 50, 27, 85, 93, 99, 99,  0, 31, 33, 57, 48, 63, 87, 58, 78, 85, 33,
      90, 13, 44, 19, 29, 31, 12, 74, 73, 32, 76, 88, 41, 39, 12, 95,  8, 45, 51, 31, 42, 35, 76, 11,
      63, 92,  6, 42, 31, 91, 96, 41, 15, 90, 90, 25, 44, 43, 76, 98, 65, 11, 51, 58, 94, 42, 75, 67,
      81, 28, 42, 15, 96, 78, 22, 61, 72, 73, 71, 33, 83, 81, 91, 93, 32, 83, 96, 25, 39, 99,  7, 54,
      66,  4, 49,  8,  8, 54, 68, 64, 39, 74, 12, 15, 77, 53,  5, 37, 52, 84, 91,  2, 25,  7, 43, 50,
      66, 97, 91, 61, 87, 61, 22, 32, 33, 11, 28, 48, 34, 76, 59, 26, 33, 23, 17, 83, 27, 19, 57,  5,
      79, 89, 59, 47, 43, 47, 77, 36, 90,  0, 47, 74, 68, 40, 85, 18, 61, 72, 21, 83, 80, 82, 79, 92,
      90,  8, 62, 85, 53, 39, 67,  0, 48,  8, 61, 14, 50, 69, 35, 23,  8, 37, 21, 39, 32, 92, 59, 71,
      59, 68, 73, 60, 98, 48, 78, 75, 49,  8, 55, 10, 88, 27, 81, 15, 35, 28, 85, 56, 88, 15, 90, 88,
      40, 64, 12, 54, 72, 73, 98, 89, 94, 41, 63, 72,  5, 55, 47, 14, 68, 59, 62, 32, 88, 42,  5, 85,
      97, 91, 99, 44, 97, 90, 96, 73,  5, 76, 29, 48, 27, 31,  5, 57, 87, 85,  2, 36, 89, 89, 71, 14
    >>

\* the value random() returns when this.seed = seed (the caller advances seed)
Rnd(seed) == RandTable[((seed - InitialSeed) % Len(RandTable)) + 1]

\* the values Math.random() * 1000 may give the noise offset
NoiseOffsets == {123, 777}

\* noise(x, y): frac(sin(x * 12.9898 + y * 78.233 + noiseOffset) * 43758.5453),
\* a hash of the position and the run's noise offset into [0, 1), in
\* hundredths.  The sine hash is modelled by an integer hash of the same phase.
noise(s, x, y) ==
    LET phase == x * 12990 + y * 78233 + s.noiseOffset * 1000
    IN ((phase % 6283) * 43758) % 100

\* one octave of fbm: sin(x * freq + off) * cos(y * freq * 1.3 + off * 0.5) * amp,
\* x and y in hundredths, freq and amp in thousandths, the result in thousandths
FbmOctave(s, x, y, freq, amp) ==
    LET px == FloorDiv(x * freq, 100) + s.noiseOffset * 1000
        py == FloorDiv(FloorDiv(y * freq, 100) * 13, 10) + s.noiseOffset * 500
        n == FloorDiv(Sin(FloorDiv(px * 573, 10000)) * Cos(FloorDiv(py * 573, 10000)), 1000)
    IN FloorDiv(n * amp, 1000)

RECURSIVE FbmSum(_, _, _, _, _, _)
FbmSum(s, x, y, freq, amp, octaves) ==
    IF octaves <= 0 THEN 0
    ELSE FbmOctave(s, x, y, freq, amp)
         + FbmSum(s, x + 10000, y + 10000,
                  FloorDiv(freq * 2 * (100 + s.poolingRandomness * 2), 100),
                  amp \div 2, octaves - 1)

\* fbm(x, y, octaves) in thousandths; x and y in hundredths
fbm(s, x, y, octaves) == FbmSum(s, x, y, 20, 500, octaves)

(***************************************************************************)
(* Construction, reset and the setters.                                    *)
(***************************************************************************)
GridDim(n) == CeilDiv(n, 4)

Zeros(n) == [i \in 0 .. n - 1 |-> 0]

\* initRoughness: the permeability cache (the roughness map is never read)
initRoughness(s) ==
    [s EXCEPT !.permeabilityMap =
        [idx \in 0 .. s.gridWidth * s.gridHeight - 1 |->
            LET x == idx % s.gridWidth
                y == idx \div s.gridWidth
            IN FloorDiv(fbm(s, x * 200, y * 200, 2), 2) + 500]]

\* new FluidSimulator(width, height); off is the constructor's Math.random() draw
NewSimulator(w, h, off) ==
    initRoughness(
      [ width |-> w, height |-> h, seed |-> InitialSeed,
        wetMap |-> Zeros(w * h),
        particles |-> << >>, maxParticles |-> MaxParticles,
        mode |-> "wall", activeCaliber |-> "9mm", spawnMode |-> "spray",
        viscosity |-> 20, density |-> 50, gravityStrength |-> 100,
        spawnRate |-> 30, spawnVelocity |-> 50, spawnDirection |-> 90,
        spreadAngle |-> 30, particleSize |-> 10, color |-> "#ff0000",
        opacity |-> 90, turbulence |-> 0, noiseOffset |-> off,
        emitters |-> << >>, dripHeads |-> << >>,
        maskData |-> Zeros(w * h), hasMask |-> FALSE,
        material |-> "custom", surfaceTension |-> 30,
        timeScale |-> 100, substeps |-> 3, paused |-> FALSE,
        particleLifetime |-> 10, infiniteLifetime |-> FALSE,
        sizeRandomness |-> 50, poolingRandomness |-> 20,
        gridWidth |-> GridDim(w), gridHeight |-> GridDim(h),
        grid |-> Zeros(GridDim(w) * GridDim(h)),
        permeabilityMap |-> Zeros(GridDim(w) * GridDim(h)),
        nextId |-> 1 ])

setSeed(s, v) == [s EXCEPT !.seed = v]
togglePause(s) == [s EXCEPT !.paused = ~s.paused]
setSpawnMode(s, m) == [s EXCEPT !.spawnMode = m]
setViscosity(s, v) == [s EXCEPT !.viscosity = v]
setParticleSize(s, v) == [s EXCEPT !.particleSize = 4 + v * 2]

\* reset(); off is the Math.random() draw of the new noise offset
reset(s, off) ==
    initRoughness(
      [s EXCEPT !.particles = << >>,
                !.emitters = << >>,
                !.dripHeads = << >>,
                !.wetMap = Zeros(s.width * s.height),
                !.grid = Zeros(s.gridWidth * s.gridHeight),
                !.seed = InitialSeed,
                !.noiseOffset = off])

clearMask(s) ==
    [s EXCEPT !.hasMask = FALSE,
              !.maskData = Zeros(s.width * s.height)]

\* a mode switch that leaves the mask as it is
setModeKeepingMask(s, mode, off) ==
    reset([s EXCEPT !.mode = mode], off)

setMode(s, mode, off) ==
    LET r == reset([s EXCEPT !.mode = mode], off)
    IN clearMask(IF mode = "experimental" THEN initRoughness(r) ELSE r)

\* updateMask(x, y, radius, isErasing); x2, y2 and rad2 are x, y and radius in
\* half pixels, so that centres between pixels can be given
updateMask(s, x2, y2, rad2, isErasing) ==
    LET r == CeilDiv(rad2, 2)
        minX == Max(0, FloorDiv(x2 - 2 * r, 2))
        maxX == Min(s.width, CeilDiv(x2 + 2 * r, 2))
        minY == Max(0, FloorDiv(y2 - 2 * r, 2))
        maxY == Min(s.height, CeilDiv(y2 + 2 * r, 2))
        val == IF isErasing THEN 0 ELSE 1
        inLoop(k) ==
            LET i == k % s.width
                j == k \div s.width
            IN /\ i >= minX /\ i < maxX /\ j >= minY /\ j < maxY
               /\ (2 * i - x2) * (2 * i - x2) + (2 * j - y2) * (2 * j - y2)
                      <= 4 * r * r
    IN [s EXCEPT !.hasMask = TRUE,
                 !.maskData = [k \in 0 .. s.width * s.height - 1 |->
                                   IF inLoop(k) THEN val ELSE s.maskData[k]]]

(***************************************************************************)
(* Spawning.                                                               *)
(***************************************************************************)
\* Array.prototype.shift
Shift(q) == IF q = << >> THEN q ELSE Tail(q)

\* Array.prototype.splice(idx, 1), idx counted from 0
Splice(q, idx) ==
    [k \in 1 .. Len(q) - 1 |-> IF k <= idx THEN q[k] ELSE q[k + 1]]

Push(s, p) ==
    [s EXCEPT !.particles = Append(s.particles, [p EXCEPT !.id = s.nextId]),
              !.nextId = s.nextId + 1]

Particle(x, y, px, py, vx, vy, mass, initialMass, life) ==
    [ id |-> 0, x |-> x, y |-> y, prevX |-> px, prevY |-> py,
      vx |-> vx, vy |-> vy, mass |-> mass, initialMass |-> initialMass,
      life |-> life, pool |-> FALSE, isMist |-> FALSE, isSplatter |-> FALSE,
      hasOrigin |-> FALSE, originX |-> 0, originY |-> 0 ]

\* an eviction that drops the newest particle of a full store
SpawnEvictNewest(s) ==
    IF Len(s.particles) >= s.maxParticles
    THEN [s EXCEPT !.particles = SubSeq(s.particles, 1, Len(s.particles) - 1)]
    ELSE s

\* the eviction at the head of the spawn loop (spray)
SpawnEvict(s) ==
    IF Len(s.particles) >= s.maxParticles
    THEN IF s.mode = "wall"
         THEN [s EXCEPT !.particles = Shift(s.particles)]
         ELSE [s EXCEPT !.seed = s.seed + 1,
                        !.particles = IF Rnd(s.seed) >= 50
                                      THEN Shift(s.particles)
                                      ELSE s.particles]
    ELSE s

\* one pass of the spawn loop: the state after it and the moved x, y
SpawnOne(st) ==
    LET s == SpawnEvict(st.s)
        sd == s.seed
        variance == FloorDiv((Rnd(sd) - 50) * 2 * s.sizeRandomness, 100)
        mass == FloorDiv(s.particleSize * 10 * (100 + variance) * s.density, 50)
        baseSpeed == s.spawnVelocity * 20
        life == s.particleLifetime * 1000
    IN IF s.mode = "wall"
       THEN LET angle == s.spawnDirection
                             + FloorDiv((Rnd(sd + 1) - 50) * s.spreadAngle, 100)
                speed == FloorDiv(baseSpeed * (50 + Rnd(sd + 2)), 100)
                p == Particle(st.x, st.y, st.x, st.y,
                              FloorDiv(Cos(angle) * speed, 1000),
                              FloorDiv(Sin(angle) * speed, 1000),
                              mass, mass, life)
            IN [s |-> Push([s EXCEPT !.seed = sd + 3], p), x |-> st.x, y |-> st.y]
       ELSE LET angle == FloorDiv(Rnd(sd + 1) * 360, 100)
                speed == FloorDiv(baseSpeed * Rnd(sd + 2), 1000)
                nx == st.x + FloorDiv((Rnd(sd + 3) - 50) * 5, 100)
                ny == st.y + FloorDiv((Rnd(sd + 4) - 50) * 5, 100)
                p == Particle(nx, ny, nx, ny,
                              FloorDiv(Cos(angle) * speed, 1000),
                              FloorDiv(Sin(angle) * speed, 1000),
                              mass, mass, life)
            IN [s |-> Push([s EXCEPT !.seed = sd + 5], p), x |-> nx, y |-> ny]

\* The loops of the engine are recursions on the simulator that run the first
\* half of the passes and then the rest.  random() only ever advances the
\* seed, so the guard n.seed >= s.seed always holds: it makes the first half
\* complete before the rest starts.
RECURSIVE SpawnLoop(_, _)
SpawnPass(st, count, n) ==
    CASE n.s.seed >= st.s.seed -> SpawnLoop(n, count - count \div 2)

SpawnLoop(st, count) ==
    IF count <= 0 THEN st
    ELSE IF count = 1 THEN SpawnOne(st)
    ELSE SpawnPass(st, count, SpawnLoop(st, count \div 2))

\* one pass of the spawnBlob loop
BlobOne(s0, x, y) ==
    LET s == IF Len(s0.particles) >= s0.maxParticles
             THEN [s0 EXCEPT !.particles = Shift(s0.particles)] ELSE s0
        sd == s.seed
        impactForce == s.spawnVelocity * 10
        angle == FloorDiv(Rnd(sd) * 360, 100)
        r == FloorDiv(Rnd(sd + 1) * s.particleSize * 2, 100)
        px == x + FloorDiv(Cos(angle) * r, 1000)
        py == y + FloorDiv(Sin(angle) * r, 1000)
        floorSpeed == FloorDiv(Rnd(sd + 2) * impactForce * 2, 1000)
        vx == IF s.mode = "floor"
              THEN FloorDiv(Cos(angle) * floorSpeed, 1000)
              ELSE FloorDiv((Rnd(sd + 2) - 50) * impactForce, 100)
        vy == IF s.mode = "floor"
              THEN FloorDiv(Sin(angle) * floorSpeed, 1000)
              ELSE FloorDiv(Rnd(sd + 3) * impactForce, 100)
        sv == IF s.mode = "floor" THEN sd + 3 ELSE sd + 4
        variance == FloorDiv((Rnd(sv) - 50) * 2 * s.sizeRandomness, 100)
        mass == s.particleSize * 10 * (100 + variance)
        p == Particle(px, py, px, py, vx, vy, mass, s.particleSize * 1000,
                      s.particleLifetime * 1000)
    IN Push([s EXCEPT !.seed = sv + 1], p)

RECURSIVE BlobLoop(_, _, _, _)
BlobPass(s, x, y, count, n) ==
    CASE n.seed >= s.seed -> BlobLoop(n, x, y, count - count \div 2)

BlobLoop(s, x, y, count) ==
    IF count <= 0 THEN s
    ELSE IF count = 1 THEN BlobOne(s, x, y)
    ELSE BlobPass(s, x, y, count, BlobLoop(s, x, y, count \div 2))

spawnBlob(s, x, y) == BlobLoop(s, x, y, 20 + s.particleSize * 5)

Emitter(x, y, type, duration) ==
    [ x |-> x * 1000, y |-> y * 1000, originX |-> x, originY |-> y,
      age |-> 0, duration |-> duration, type |-> type, wanderAngle |-> 0,
      frameRow |-> 0, frameCol |-> 0, rotation |-> 0, scale |-> 100 ]

InCanvas(s, x, y) == x >= 0 /\ x < s.width /\ y >= 0 /\ y < s.height

\* the mask test at the head of spawnPool and spawnExperimental
SpawnBlockedByMask(s, x, y) ==
    /\ s.hasMask
    /\ InCanvas(s, x, y)
    /\ s.maskData[y * s.width + x] = 0

spawnExperimental(s, x, y) ==
    IF SpawnBlockedByMask(s, x, y) THEN s
    ELSE [s EXCEPT !.emitters = Append(s.emitters,
                                       Emitter(x, y, "experimental", 99999000))]

spawnSmart(s, x, y) ==
    [s EXCEPT !.emitters = Append(s.emitters, Emitter(x, y, "smart", 99999000))]

\* one drip head of spawnVectorDrip
DripOne(s, x, y) ==
    LET sd == s.seed
        r == s.particleSize * 3
        head == [ x |-> x + FloorDiv((Rnd(sd + 2) - 50) * r, 100),
                  y |-> y + FloorDiv((Rnd(sd + 3) - 50) * r, 100),
                  prevX |-> x, prevY |-> y, vx |-> 0,
                  vy |-> 50 + FloorDiv(Rnd(sd + 1) * 50, 100),
                  width |-> 4000 + Rnd(sd) * 60, active |-> TRUE ]
    IN [s EXCEPT !.seed = sd + 4, !.dripHeads = Append(s.dripHeads, head)]

RECURSIVE DripLoop(_, _, _, _)
DripPass(s, x, y, count, n) ==
    CASE n.seed >= s.seed -> DripLoop(n, x, y, count - count \div 2)

DripLoop(s, x, y, count) ==
    IF count <= 0 THEN s
    ELSE IF count = 1 THEN DripOne(s, x, y)
    ELSE DripPass(s, x, y, count, DripLoop(s, x, y, count \div 2))

\* spawnVectorDrip: the splash draws 3 random numbers for each of 10 droplets
spawnVectorDrip(s, x, y) ==
    LET sd == s.seed + 30
        dripCount == 3 + FloorDiv(Rnd(sd) * 3, 100)
    IN DripLoop([s EXCEPT !.seed = sd + 1], x, y, dripCount)

spawnTLOU(s, x, y) ==
    LET sd == s.seed
        frameIdx == FloorDiv(Rnd(sd) * 36, 100)
        e == [Emitter(x, y, "tlou", 300000) EXCEPT
                 !.frameRow = frameIdx \div 6,
                 !.frameCol = frameIdx % 6,
                 !.rotation = FloorDiv(Rnd(sd + 1) * 360, 100),
                 !.scale = 100 + Rnd(sd + 2) \div 2]
    IN [s EXCEPT !.seed = sd + 3, !.emitters = Append(s.emitters, e)]

spawn(s, x, y) ==
    IF s.mode = "experimental" THEN spawnExperimental(s, x, y)
    ELSE IF s.mode = "smart" THEN spawnSmart(s, x, y)
    ELSE IF s.mode = "vector-drip" THEN spawnVectorDrip(s, x, y)
    ELSE IF s.mode = "tlou" THEN spawnTLOU(s, x, y)
    ELSE IF s.spawnMode = "drop" THEN spawnBlob(s, x, y)
    ELSE SpawnLoop([s |-> s, x |-> x, y |-> y], CeilDiv(s.spawnRate, 2)).s

\* the caliber presets: spread in thousandths of a radian, size and mist in
\* hundredths
Calibers ==
    [ c \in {"22lr", "9mm", "45acp", "556", "12ga"} |->
        CASE c = "22lr" -> [count |-> 20, speed |-> 120, spread |-> 100, size |-> 80, mist |-> 10]
          [] c = "9mm" -> [count |-> 45, speed |-> 150, spread |-> 200, size |-> 110, mist |-> 25]
          [] c = "45acp" -> [count |-> 40, speed |-> 130, spread |-> 250, size |-> 160, mist |-> 20]
          [] c = "556" -> [count |-> 180, speed |-> 280, spread |-> 400, size |-> 70, mist |-> 85]
          [] c = "12ga" -> [count |-> 250, speed |-> 220, spread |-> 700, size |-> 100, mist |-> 60] ]

CaliberStats(s) ==
    IF s.activeCaliber \in DOMAIN Calibers THEN Calibers[s.activeCaliber]
    ELSE Calibers["9mm"]

\* the type draw of spawnBallistic: r in hundredths
BallisticType(stats, r) ==
    IF r < 20 THEN "splatter"
    ELSE IF r < stats.mist + 20 THEN "mist"
    ELSE "drop"

\* a shot of count_c particles whatever the distance
BallisticCountFlat(stats, distance) == stats.count

\* Math.floor(stats.count * (1.0 + distance * 0.5)), distance in hundredths
BallisticCount(stats, distance) == FloorDiv(stats.count * (200 + distance), 200)

\* one pass of the spawnBallistic loop
BallisticOne(s0, x, y, angle, distance) ==
    LET s == IF Len(s0.particles) >= s0.maxParticles
             THEN [s0 EXCEPT !.particles = Shift(s0.particles)] ELSE s0
        sd == s.seed
        stats == CaliberStats(s)
        type == BallisticType(stats, Rnd(sd))
        baseSpread == FloorDiv(stats.spread * (200 + distance * 3), 200)
        spreadMult == IF type = "mist" THEN 12 ELSE IF type = "splatter" THEN 5 ELSE 10
        spreadVar == FloorDiv((Rnd(sd + 1) - 50) * baseSpread * spreadMult, 1000)
        theta == angle + FloorDiv(spreadVar * 573, 10000)
        speedVar == 80 + FloorDiv(Rnd(sd + 2) * 6, 10)
        speed0 == FloorDiv(stats.speed * speedVar * 30, 100)
        speed == IF type = "splatter" THEN speed0 * 2
                 ELSE IF type = "mist" THEN FloorDiv(speed0 * 12, 10)
                 ELSE speed0
        sizeBase == IF type = "mist" THEN FloorDiv(stats.size, 2)
                    ELSE IF type = "splatter" THEN FloorDiv(stats.size * 4, 10)
                    ELSE stats.size
        mass == FloorDiv(s.particleSize * 10 * sizeBase * (IF type = "drop" THEN 10 ELSE 4), 10)
        spawnOffset == FloorDiv(Rnd(sd + 3) * 20, 100)
        sx == x + FloorDiv(Cos(theta) * spawnOffset, 1000)
        sy == y + FloorDiv(Sin(theta) * spawnOffset, 1000)
        p == [Particle(sx, sy, sx, sy,
                       FloorDiv(Cos(theta) * speed, 1000),
                       FloorDiv(Sin(theta) * speed, 1000),
                       mass, mass, s.particleLifetime * 1000)
                 EXCEPT !.isMist = (type = "mist"),
                        !.isSplatter = (type = "splatter")]
    IN Push([s EXCEPT !.seed = sd + 4], p)

RECURSIVE BallisticLoop(_, _, _, _, _, _)
BallisticPass(s, x, y, angle, distance, count, n) ==
    CASE n.seed >= s.seed -> BallisticLoop(n, x, y, angle, distance, count - count \div 2)

BallisticLoop(s, x, y, angle, distance, count) ==
    IF count <= 0 THEN s
    ELSE IF count = 1 THEN BallisticOne(s, x, y, angle, distance)
    ELSE BallisticPass(s, x, y, angle, distance, count,
                       BallisticLoop(s, x, y, angle, distance, count \div 2))

spawnBallistic(s, x, y, angle, distance) ==
    BallisticLoop(s, x, y, angle, distance,
                  BallisticCount(CaliberStats(s), distance))

spawnPool(s0, x, y) ==
    IF SpawnBlockedByMask(s0, x, y) THEN s0
    ELSE LET s == IF s0.mode = "one-click" THEN setParticleSize(s0, 6) ELSE s0
             e == [Emitter(x, y, "pool", 600000) EXCEPT
                      !.wanderAngle = FloorDiv(Rnd(s.seed) * 360, 100)]
         IN [s EXCEPT !.seed = s.seed + 1, !.emitters = Append(s.emitters, e)]

(***************************************************************************)
(* step: the emitter loop.                                                 *)
(***************************************************************************)
IsGridEmitter(e) == e.type \in {"smart", "tlou", "experimental"}

\* one particle of the emitter's burst
EmitOne(s0, e, speed) ==
    LET atCap == Len(s0.particles) >= s0.maxParticles
        s == IF atCap
             THEN [s0 EXCEPT !.seed = s0.seed + 1,
                             !.particles = Splice(s0.particles,
                                 FloorDiv(Rnd(s0.seed) * Len(s0.particles), 100))]
             ELSE s0
        sd == s.seed
        angle == e.wanderAngle + FloorDiv((Rnd(sd) - 50) * 573, 1000)
        r == Rnd(sd + 1) * 20
        px == FloorDiv(e.x + FloorDiv(Cos(angle) * r, 1000), 1000)
        py == FloorDiv(e.y + FloorDiv(Sin(angle) * r, 1000), 1000)
        v == FloorDiv(speed * (100 + Rnd(sd + 2)), 200)
        variance == FloorDiv((Rnd(sd + 3) - 50) * 2 * s.sizeRandomness, 100)
        mass == s.particleSize * 10 * (100 + variance)
        jx == FloorDiv((Rnd(sd + 4) - 50) * 5, 100)
        jy == FloorDiv((Rnd(sd + 5) - 50) * 5, 100)
        p == [Particle(px + jx, py + jy, px, py,
                       FloorDiv(Cos(angle) * v, 1000),
                       FloorDiv(Sin(angle) * v, 1000),
                       mass, s.particleSize * 1000, s.particleLifetime * 1000)
                 EXCEPT !.pool = TRUE, !.hasOrigin = TRUE,
                        !.originX = e.originX, !.originY = e.originY]
    IN Push([s EXCEPT !.seed = sd + 6], p)

RECURSIVE EmitLoop(_, _, _, _)
EmitPass(s, e, speed, count, n) ==
    CASE n.seed >= s.seed -> EmitLoop(n, e, speed, count - count \div 2)

EmitLoop(s, e, speed, count) ==
    IF count <= 0 THEN s
    ELSE IF count = 1 THEN EmitOne(s, e, speed)
    ELSE EmitPass(s, e, speed, count, EmitLoop(s, e, speed, count \div 2))

\* emitter i of the list (counted from 1) in one step of dt milliseconds
EmitterTick(s, i, dt) ==
    LET e0 == s.emitters[i]
        age == e0.age + dt
    IN IF IsGridEmitter(e0) THEN s
       ELSE IF age > e0.duration
       THEN [s EXCEPT !.emitters = Splice(s.emitters, i - 1)]
       ELSE
        LET wanderNoise == fbm(s, age * 2, 0, 2)
            turnRate == 5 * (100 + s.poolingRandomness * 3)
            turn == FloorDiv(FloorDiv(wanderNoise * turnRate * dt, 100000) * 573, 10000)
            wanderAngle == e0.wanderAngle + turn
            e == [e0 EXCEPT !.age = age,
                            !.wanderAngle = wanderAngle,
                            !.x = e0.x + FloorDiv(Cos(wanderAngle) * s.poolingRandomness * dt, 10000),
                            !.y = e0.y + FloorDiv(Sin(wanderAngle) * s.poolingRandomness * dt, 10000)]
            rate == IF s.mode = "one-click" THEN 80 ELSE 150
            speed == IF s.mode = "one-click" THEN 30 ELSE 20
            whole == (rate * dt) \div 1000
            frac == ((rate * dt) % 1000) \div 10
            numToSpawn == whole + (IF Rnd(s.seed) < frac THEN 1 ELSE 0)
        IN EmitLoop([s EXCEPT !.emitters[i] = e, !.seed = s.seed + 1],
                    e, speed, numToSpawn)

RECURSIVE EmitterLoop(_, _, _, _)
EmitterPass(s, hi, lo, dt, n) ==
    CASE n.seed >= s.seed -> EmitterLoop(n, (hi + lo) \div 2, lo, dt)

EmitterLoop(s, hi, lo, dt) ==
    IF hi < lo THEN s
    ELSE IF hi = lo THEN EmitterTick(s, hi, dt)
    ELSE EmitterPass(s, hi, lo, dt, EmitterLoop(s, hi, (hi + lo) \div 2 + 1, dt))

(***************************************************************************)
(* applyRepulsion: the spatial hash and the pair forces.                   *)
(***************************************************************************)
HashCols(s) == CeilDiv(s.width, GridCellSize)

BucketIndex(s, p) ==
    FloorDiv(p.y, GridCellSize) * HashCols(s) + FloorDiv(p.x, GridCellSize)

\* this.buckets[idx]: the indices of the bucketed particles, in list order;
\* idx outside the allocated buckets holds nothing
Bucket(s, idx) ==
    IF idx < 0 \/ idx >= NumBuckets THEN << >>
    ELSE SelectSeq([k \in 1 .. Len(s.particles) |-> k],
                   LAMBDA k: s.particles[k].mass > 0
                             /\ BucketIndex(s, s.particles[k]) = idx)

\* the particles the 3x3 scan of particle k1 visits, in visiting order
ScanOrder(s, k1) ==
    LET cx == FloorDiv(s.particles[k1].x, GridCellSize)
        cy == FloorDiv(s.particles[k1].y, GridCellSize)
        cols == HashCols(s)
        cell(n) == Bucket(s, (cy - 1 + (n \div 3)) * cols + (cx - 1 + (n % 3)))
    IN cell(0) \o cell(1) \o cell(2) \o cell(3) \o cell(4)
         \o cell(5) \o cell(6) \o cell(7) \o cell(8)

DistSq(p1, p2) ==
    (p1.x - p2.x) * (p1.x - p2.x) + (p1.y - p2.y) * (p1.y - p2.y)

Interacts(s, p1, p2) ==
    /\ DistSq(p1, p2) < 16 * s.particleSize * s.particleSize
    /\ DistSq(p1, p2) > 0

\* the velocity change <<fx, fy>> that p2 gives p1
PairForce(s, p1, p2, dt) ==
    LET dist == ISqrt(DistSq(p1, p2) * 100)
        restDist == s.particleSize * 15
        interactionDist == s.particleSize * 40
        interactMult == IF s.mode = "one-click" THEN 5 ELSE 100
        push == Min(500, FloorDiv(40 * s.density * (restDist - dist) * interactMult,
                                  restDist * 100))
        pull == FloorDiv(FloorDiv((interactionDist - dist) * 15 * s.surfaceTension,
                                  interactionDist - restDist) * interactMult, 100)
        force == IF dist < restDist THEN push ELSE -pull
    IN << FloorDiv((p1.x - p2.x) * force * dt, dist * 100),
          FloorDiv((p1.y - p2.y) * force * dt, dist * 100) >>

\* the scan of particle k1 from position n of its visiting order, count
\* interactions so far
RECURSIVE ScanForce(_, _, _, _, _, _)
ScanForce(s, k1, order, n, count, dt) ==
    IF n > Len(order) THEN << 0, 0 >>
    ELSE LET k2 == order[n]
             p1 == s.particles[k1]
             p2 == s.particles[k2]
         IN IF k2 = k1 \/ ~Interacts(s, p1, p2)
            THEN ScanForce(s, k1, order, n + 1, count, dt)
            ELSE IF count + 1 > MaxInteractions THEN << 0, 0 >>
            ELSE LET f == PairForce(s, p1, p2, dt)
                     rest == ScanForce(s, k1, order, n + 1, count + 1, dt)
                 IN << f[1] + rest[1], f[2] + rest[2] >>

applyRepulsion(s, dt) ==
    [s EXCEPT !.particles =
        [k \in 1 .. Len(s.particles) |->
            IF s.particles[k].mass <= 0 THEN s.particles[k]
            ELSE LET f == ScanForce(s, k, ScanOrder(s, k), 1, 0, dt)
                 IN [s.particles[k] EXCEPT !.vx = @ + f[1], !.vy = @ + f[2]]]]

(***************************************************************************)
(* step: the particle loop.                                                *)
(***************************************************************************)
\* Math.exp(-x) in thousandths, x >= 0 in thousandths: the Taylor series to
\* x^3 below 0.25, and exp(-x) = exp(-x/2)^2 above
RECURSIVE ExpNeg(_)
ExpNeg(x) ==
    IF x <= 250
    THEN 1000 - x + FloorDiv(x * x, 2000) - FloorDiv(FloorDiv(x * x, 1000) * x, 6000)
    ELSE LET h == ExpNeg(x \div 2) IN FloorDiv(h * h, 1000)

Speed(p) == ISqrt(p.vx * p.vx + p.vy * p.vy)

WetAt(s, x, y) == IF InCanvas(s, x, y) THEN s.wetMap[y * s.width + x] ELSE 0

\* the wet map after a streak is drawn at the in-canvas pixel (ix, iy)
Wetten(s, ix, iy) ==
    LET idx == iy * s.width + ix
        w0 == s.wetMap
        w1 == [w0 EXCEPT ![idx] = IF w0[idx] < 235 THEN w0[idx] + 20 ELSE 255]
        w2 == IF ix + 1 < s.width /\ w1[idx + 1] < 255
              THEN [w1 EXCEPT ![idx + 1] = Min(255, w1[idx + 1] + 10)] ELSE w1
        w3 == IF ix - 1 >= 0 /\ w2[idx - 1] < 255
              THEN [w2 EXCEPT ![idx - 1] = Min(255, w2[idx - 1] + 10)] ELSE w2
    IN IF iy + 1 < s.height /\ w3[idx + s.width] < 255
       THEN [w3 EXCEPT ![idx + s.width] = Min(255, w3[idx + s.width] + 10)]
       ELSE w3

\* the wall and ballistic branch for a particle p of speed `speed' on a pixel
\* of wetness wetVal: the state (seed, wet map) and the particle before it is
\* moved
WallForces(s, p, speed, wetVal, dt) ==
    LET vy1 == p.vy + FloorDiv(25 * s.gravityStrength * dt, 1000)
        viscosityFactor == Max(10, s.viscosity)
        f1 == IF s.mode = "ballistic" /\ p.isSplatter THEN 1000 - 20 * dt
              ELSE IF s.mode = "ballistic" /\ p.isMist THEN 1000 - 25 * dt
              ELSE 1000 - FloorDiv(viscosityFactor * 2 * dt, 100)
        mistLoss == IF s.mode = "ballistic" /\ ~p.isSplatter /\ p.isMist /\ speed < 100
                    THEN dt * 10 ELSE 0
        friction == Max(0, IF wetVal > 20 THEN 1000 - FloorDiv(viscosityFactor * dt, 200)
                           ELSE f1)
        lossRate == 5 * (200 - s.viscosity)
        canStreak == (p.mass - mistLoss > s.particleSize * 800) \/ wetVal > 5
        rate == IF canStreak
                THEN (IF wetVal > 0 THEN FloorDiv(lossRate * 4, 10) ELSE lossRate)
                ELSE FloorDiv(lossRate, 10)
        mass == p.mass - mistLoss - FloorDiv(FloorDiv(speed * dt, 10) * rate, 10000)
        meander == speed > 10
        jitter == IF meander
                  THEN FloorDiv((Rnd(s.seed) - 50) * 150 * (100 - s.viscosity) * dt,
                                10000000)
                  ELSE 0
    IN [ s |-> [s EXCEPT !.seed = IF meander THEN @ + 1 ELSE @,
                         !.wetMap = IF mass > 500 /\ canStreak /\ InCanvas(s, p.x, p.y)
                                    THEN Wetten(s, p.x, p.y) ELSE @],
         p |-> [p EXCEPT !.vx = FloorDiv(@ * friction, 1000) + jitter,
                         !.vy = FloorDiv(vy1 * friction, 1000),
                         !.mass = mass] ]

WallBranch(s, p, dt) == WallForces(s, p, Speed(p), WetAt(s, p.x, p.y), dt)

\* the mask constraint of the floor branch: the particle after it
MaskConstraint(s, p) ==
    IF s.hasMask /\ InCanvas(s, p.x, p.y) /\ s.maskData[p.y * s.width + p.x] = 0
    THEN LET q == [p EXCEPT !.x = p.prevX, !.y = p.prevY, !.vx = 0, !.vy = 0]
         IN IF InCanvas(s, p.prevX, p.prevY)
               /\ s.maskData[p.prevY * s.width + p.prevX] = 0
            THEN [q EXCEPT !.mass = 0]
            ELSE q
    ELSE p

\* the distance of a pool particle from its origin, in hundredths of a pixel
OriginDist(p) ==
    ISqrt(((p.x - p.originX) * (p.x - p.originX)
           + (p.y - p.originY) * (p.y - p.originY)) * 100)

\* the floor and one-click branch, first part: turbulence and flow boost for a
\* particle on noise value nVal
FloorForces(s, p, nVal, dt) ==
    LET angle == FloorDiv(nVal * 720, 100)
        turb == IF s.turbulence > 0 THEN s.turbulence * 80 * dt ELSE 0
        jitter == IF s.turbulence > 50 THEN s.turbulence * 20 * dt ELSE 0
        flowBoost == IF s.mode = "one-click" THEN FloorDiv(200 * dt * dt, 1000) ELSE 0
    IN [p EXCEPT !.vx = @ + FloorDiv(Cos(angle) * turb, 100000000)
                          + FloorDiv((Rnd(s.seed) - 50) * jitter, 10000000)
                          + FloorDiv(Cos(angle) * flowBoost, 1000000),
                 !.vy = @ + FloorDiv(Sin(angle) * turb, 100000000)
                          + FloorDiv((Rnd(s.seed + 1) - 50) * jitter, 10000000)
                          + FloorDiv(Sin(angle) * flowBoost, 1000000)]

\* second part: the channel friction, or the damping and outward expansion of
\* one-click, for a particle at distance dist from its origin
FloorFriction(s, p, dist, nVal, dt) ==
    LET friction0 == ExpNeg(FloorDiv(Max(10, s.viscosity) * 2 * dt, 100))
        friction == IF nVal > 20 THEN FloorDiv(friction0 * 99, 100)
                    ELSE FloorDiv(friction0 * 80, 100)
        expand == s.mode = "one-click" /\ p.hasOrigin /\ dist > 10
    IN IF s.mode = "one-click"
       THEN [p EXCEPT
               !.vx = FloorDiv(@ * 85, 100)
                      + (IF expand THEN FloorDiv((p.x - p.originX) * 2 * dt, dist) ELSE 0),
               !.vy = FloorDiv(@ * 85, 100)
                      + (IF expand THEN FloorDiv((p.y - p.originY) * 2 * dt, dist) ELSE 0)]
       ELSE [p EXCEPT !.vx = FloorDiv(@ * friction, 1000),
                      !.vy = FloorDiv(@ * friction, 1000)]

\* third part: the lifetime of a particle that entered the pass at speed `speed'
FloorDecay(s, p, speed, dt) ==
    LET disableDecay == s.infiniteLifetime \/ (s.mode = "one-click" /\ p.pool)
        life == IF disableDecay THEN p.life
                ELSE IF speed < 2 THEN p.life - 2 * dt ELSE p.life - dt
    IN [p EXCEPT !.life = life,
                 !.mass = IF ~disableDecay /\ life <= 0 THEN 0 ELSE @]

\* q is the particle after the mask constraint
FloorStages(s, q, speed, nVal, dt) ==
    [ s |-> [s EXCEPT !.seed = IF s.turbulence > 50 THEN @ + 2 ELSE @],
      p |-> FloorDecay(s, FloorFriction(s, q, OriginDist(q), nVal, dt), speed, dt) ]

\* the floor and one-click branch for one particle
FloorBranch(s, p, dt) ==
    FloorStages(s, MaskConstraint(s, FloorForces(s, p, noise(s, p.x, p.y), dt)),
                Speed(p), noise(s, p.x, p.y), dt)

\* the test that removes a particle at the end of its pass
Killed(s, p) ==
    \/ p.mass <= MassEpsilon
    \/ p.y > s.height + OobMargin
    \/ p.x < -OobMargin
    \/ p.x > s.width + OobMargin

\* the end of a particle's pass: it moves, and is removed if the kill test says
\* so.  i counts from 1
MoveOrKill(s, p, i) ==
    IF Killed(s, p)
    THEN [s EXCEPT !.particles = Splice(s.particles, i - 1)]
    ELSE [s EXCEPT !.particles[i] = p]

Moved(p, dt) ==
    [p EXCEPT !.x = @ + FloorDiv(p.vx * dt, 1000),
              !.y = @ + FloorDiv(p.vy * dt, 1000)]

Branch(s, p, dt) ==
    IF s.mode \in {"wall", "ballistic"} THEN WallBranch(s, p, dt)
    ELSE IF s.mode \in {"floor", "one-click"} THEN FloorBranch(s, p, dt)
    ELSE [s |-> s, p |-> p]

Settle(b, i, dt) == MoveOrKill(b.s, Moved(b.p, dt), i)

\* particle i of the list (counted from 1) in one step of dt milliseconds
ParticleTick(s, i, dt) ==
    Settle(Branch(s, [s.particles[i] EXCEPT !.prevX = s.particles[i].x,
                                            !.prevY = s.particles[i].y], dt),
           i, dt)

RECURSIVE ParticleLoop(_, _, _, _)
ParticlePass(s, hi, lo, dt, n) ==
    CASE n.seed >= s.seed -> ParticleLoop(n, (hi + lo) \div 2, lo, dt)

ParticleLoop(s, hi, lo, dt) ==
    IF hi < lo THEN s
    ELSE IF hi = lo THEN ParticleTick(s, hi, dt)
    ELSE ParticlePass(s, hi, lo, dt, ParticleLoop(s, hi, (hi + lo) \div 2 + 1, dt))

(***************************************************************************)
(* Grid diffusion: updateSmartExpansion, updateExperimental, updateTLOU.   *)
(***************************************************************************)
\* this.maskData[idx] === 0; an index outside the buffer reads undefined
MaskIsZero(s, idx) ==
    idx >= 0 /\ idx < s.width * s.height /\ s.maskData[idx] = 0

\* the mask test of a flow source or target at grid cell (x, y)
CellBlocked(s, x, y) == s.hasMask /\ MaskIsZero(s, (y * 4) * s.width + x * 4)

\* the offsets <<i, j>> of a square footprint of half-width r, rows outermost
Footprint(r) ==
    [n \in 1 .. (2 * r + 1) * (2 * r + 1) |->
        << ((n - 1) % (2 * r + 1)) - r, ((n - 1) \div (2 * r + 1)) - r >>]

\* the interior cells in scan order
Interior(s) ==
    [n \in 1 .. Max(0, s.gridWidth - 2) * Max(0, s.gridHeight - 2) |->
        (1 + (n - 1) \div (s.gridWidth - 2)) * s.gridWidth
          + 1 + ((n - 1) % (s.gridWidth - 2))]

\* Math.pow(v, e) in thousandths for v in thousandths and an integer e >= 0
RECURSIVE PowMilli(_, _)
PowMilli(v, e) == IF e <= 0 THEN 1000 ELSE FloorDiv(v * PowMilli(v, e - 1), 1000)

\* the footprint offsets of a disc of radius r at (gx, gy) that write cell idx
SmartHits(s, idx, gx, gy, r, fp) ==
    { n \in 1 .. Len(fp) :
        /\ fp[n][1] * fp[n][1] + fp[n][2] * fp[n][2] <= r * r
        /\ (gy + fp[n][2]) * s.gridWidth + (gx + fp[n][1]) = idx }

\* the injection of one smart emitter into nextGrid ng: a cell below 2.5 gains
\* add, capped at 2.5, once for every footprint offset that writes it
SmartInject(s, ng, gx, gy, r, add, fp) ==
    [idx \in DOMAIN ng |->
        IF ng[idx] >= 2500 THEN ng[idx]
        ELSE Min(2500, ng[idx] + add * Cardinality(SmartHits(s, idx, gx, gy, r, fp)))]

\* the smart emitters, last to first: the aged emitters and nextGrid
RECURSIVE SmartEmitters(_, _, _, _)
SmartEmitters(s, st, i, dt) ==
    IF i < 1 THEN st
    ELSE LET e0 == st.emitters[i]
         IN IF e0.type # "smart" THEN SmartEmitters(s, st, i - 1, dt)
            ELSE
             LET age == e0.age + dt
                 wander == fbm(s, FloorDiv(age, 2), 10000, 4)
                 wdeg == FloorDiv(wander * 180, 1000)
                 gx == FloorDiv(e0.x + Cos(wdeg) * 10, 4000)
                 gy == FloorDiv(e0.y + Sin(wdeg) * 10, 4000)
                 blood == s.material = "blood"
                 pulse == ExpNeg(FloorDiv((age % 800) * 16000, 800))
                 pumpRate == IF blood THEN 200 + pulse ELSE 500
                 r == IF blood THEN CeilDiv(3 * (2000 + pulse), 2000) ELSE 3
                 ng == SmartInject(s, st.ng, gx, gy, r, dt * pumpRate, Footprint(r))
             IN SmartEmitters(s,
                              [emitters |-> [st.emitters EXCEPT ![i].age = age],
                               ng |-> ng],
                              i - 1, dt)

\* the flux the smart source cell idx (height val) offers neighbour k
SmartFlux(s, idx, val, k, dt) ==
    LET w == s.gridWidth
        x == idx % w
        y == idx \div w
        nIdx == CASE k = 1 -> idx - w [] k = 2 -> idx + w [] k = 3 -> idx - 1 [] OTHER -> idx + 1
        nx == CASE k = 3 -> x - 1 [] k = 4 -> x + 1 [] OTHER -> x
        ny == CASE k = 1 -> y - 1 [] k = 2 -> y + 1 [] OTHER -> y
        nVal == s.grid[nIdx]
        permPower == FloorDiv(3 * (110 - s.poolingRandomness) + 50, 100)
        perm == PowMilli(s.permeabilityMap[nIdx], permPower)
        tensionLimit == FloorDiv(s.surfaceTension, 10)
        active == FloorDiv(40 * dt * (200 + FloorDiv(perm * 3, 2)), 1000)
    IN IF val <= nVal THEN 0
       ELSE IF CellBlocked(s, nx, ny) THEN 0
       ELSE IF nVal < 1 /\ val < tensionLimit /\ perm < 300 THEN 0
       ELSE IF nVal * 100 < val * 95
            THEN (IF nVal < 50 THEN FloorDiv(active * 5, 2) ELSE active)
            ELSE FloorDiv((val - nVal) * 40 * dt, 1000)

Neighbour(s, idx, k, order) ==
    LET w == s.gridWidth
    IN idx + (CASE order[k] = "up" -> -w [] order[k] = "down" -> w
                [] order[k] = "left" -> -1 [] OTHER -> 1)

\* the flows reach the neighbours, but the source keeps what it gave
ApplyFlowsKeepingSource(s, ng, idx, flows, order) ==
    [c \in DOMAIN ng |->
        ng[c] + (IF c = Neighbour(s, idx, 1, order) THEN flows[1] ELSE 0)
              + (IF c = Neighbour(s, idx, 2, order) THEN flows[2] ELSE 0)
              + (IF c = Neighbour(s, idx, 3, order) THEN flows[3] ELSE 0)
              + (IF c = Neighbour(s, idx, 4, order) THEN flows[4] ELSE 0)]

\* nextGrid after the source cell idx gives flows[k] to its neighbours
ApplyFlows(s, ng, idx, flows, order) ==
    LET out == flows[1] + flows[2] + flows[3] + flows[4]
        gain(c) == (IF c = Neighbour(s, idx, 1, order) THEN flows[1] ELSE 0)
                   + (IF c = Neighbour(s, idx, 2, order) THEN flows[2] ELSE 0)
                   + (IF c = Neighbour(s, idx, 3, order) THEN flows[3] ELSE 0)
                   + (IF c = Neighbour(s, idx, 4, order) THEN flows[4] ELSE 0)
    IN [c \in DOMAIN ng |-> IF c = idx THEN ng[c] - out ELSE ng[c] + gain(c)]

\* the flows scaled down when their sum exceeds the mass val of the source
ScaleFlows(flows, val) ==
    LET total == flows[1] + flows[2] + flows[3] + flows[4]
    IN IF total > val
       THEN [k \in 1 .. 4 |-> FloorDiv(flows[k] * val, total)]
       ELSE flows

Sum4(flows) == flows[1] + flows[2] + flows[3] + flows[4]

\* the first neighbour that receives a flow
FirstFlow(flows) == CHOOSE k \in 1 .. 4 : flows[k] > 0 /\ \A j \in 1 .. k - 1 : flows[j] <= 0

\* flows *= val / totalFlow; totalFlow = val: the scaled flows add up to the
\* mass val of the source, the remainder of the integer divisions going to the
\* first receiving neighbour
Topped(scaled, val, k) == [scaled EXCEPT ![k] = @ + val - Sum4(scaled)]

ScaleToMass(flows, val) ==
    IF Sum4(flows) > val THEN Topped(ScaleFlows(flows, val), val, FirstFlow(flows)) ELSE flows

SmartOrder == << "up", "down", "left", "right" >>

\* the pass of the smart flux loop over interior cell number n
SmartCell(s, ng, idx, dt) ==
    LET val == s.grid[idx]
    IN IF val <= 5 THEN ng
       ELSE IF CellBlocked(s, idx % s.gridWidth, idx \div s.gridWidth)
       THEN [ng EXCEPT ![idx] = 0]
       ELSE ApplyFlows(s, ng, idx,
                       ScaleFlows([k \in 1 .. 4 |-> SmartFlux(s, idx, val, k, dt)], val),
                       SmartOrder)

RECURSIVE SmartFluxLoop(_, _, _, _, _)
SmartFluxLoop(s, ng, cells, n, dt) ==
    IF n > Len(cells) THEN ng
    ELSE SmartFluxLoop(s, SmartCell(s, ng, cells[n], dt), cells, n + 1, dt)

updateSmartExpansion(s, dt) ==
    LET st == SmartEmitters(s, [emitters |-> s.emitters, ng |-> s.grid],
                            Len(s.emitters), dt)
    IN [s EXCEPT !.emitters = st.emitters,
                 !.grid = SmartFluxLoop(s, st.ng, Interior(s), 1, dt)]

\* the footprint offsets of the disc of radius 3 at (gx, gy) that write cell
\* idx: those whose mask sample is not a blocked cell of the mask
ExperimentalHits(s, idx, gx, gy, fp) ==
    { n \in 1 .. Len(fp) :
        /\ fp[n][1] * fp[n][1] + fp[n][2] * fp[n][2] <= 9
        /\ (gy + fp[n][2]) * s.gridWidth + (gx + fp[n][1]) = idx
        /\ ~(s.hasMask /\ MaskIsZero(s, ((gy + fp[n][2]) * 4) * s.width + (gx + fp[n][1]) * 4)) }

\* the injection of one experimental emitter into nextGrid ng: a cell gains
\* add, capped at 3, once for every footprint offset that writes it
ExperimentalInject(s, ng, gx, gy, add, fp) ==
    [idx \in DOMAIN ng |->
        IF ExperimentalHits(s, idx, gx, gy, fp) = {} THEN ng[idx]
        ELSE Min(3000, ng[idx] + add * Cardinality(ExperimentalHits(s, idx, gx, gy, fp)))]

RECURSIVE ExperimentalEmitters(_, _, _, _)
ExperimentalEmitters(s, st, i, dt) ==
    IF i < 1 THEN st
    ELSE LET e0 == st.emitters[i]
         IN IF e0.type # "experimental" THEN ExperimentalEmitters(s, st, i - 1, dt)
            ELSE
             LET gx == FloorDiv(e0.x, 4000)
                 gy == FloorDiv(e0.y, 4000)
                 ng == ExperimentalInject(s, st.ng, gx, gy, 24 * dt, Footprint(3))
             IN ExperimentalEmitters(s,
                                     [emitters |-> [st.emitters EXCEPT ![i].age = @ + dt],
                                      ng |-> ng],
                                     i - 1, dt)

ExperimentalOrder == << "left", "right", "up", "down" >>

\* the flow the experimental source cell idx (height val) offers neighbour k
ExperimentalFlow(s, idx, val, k, dt) ==
    LET nIdx == Neighbour(s, idx, k, ExperimentalOrder)
        diff == val - s.grid[nIdx]
        flowSpeed == dt * (200 - s.viscosity)
    IN IF CellBlocked(s, nIdx % s.gridWidth, nIdx \div s.gridWidth) THEN 0
       ELSE IF diff > 0 THEN FloorDiv(diff * flowSpeed, 1000)
       ELSE 0

\* the pass of the experimental flow loop over one interior cell
ExperimentalCell(s, ng, idx, dt) ==
    LET val == s.grid[idx]
    IN IF val <= 1 THEN ng
       ELSE IF CellBlocked(s, idx % s.gridWidth, idx \div s.gridWidth)
       THEN [ng EXCEPT ![idx] = 0]
       ELSE ApplyFlows(s, ng, idx,
                       ScaleToMass([k \in 1 .. 4 |-> ExperimentalFlow(s, idx, val, k, dt)], val),
                       ExperimentalOrder)

RECURSIVE ExperimentalFlowLoop(_, _, _, _, _)
ExperimentalFlowLoop(s, ng, cells, n, dt) ==
    IF n > Len(cells) THEN ng
    ELSE ExperimentalFlowLoop(s, ExperimentalCell(s, ng, cells[n], dt), cells, n + 1, dt)

updateExperimental(s, dt) ==
    LET st == ExperimentalEmitters(s, [emitters |-> s.emitters, ng |-> s.grid],
                                   Len(s.emitters), dt)
    IN [s EXCEPT !.emitters = st.emitters,
                 !.grid = ExperimentalFlowLoop(s, st.ng, Interior(s), 1, dt)]

\* the fallback formation raster sampled at (u, v) of frame number frame: the
\* pixel is white inside a disc of radius 0.45 * 64 * f / 36 at the centre of
\* the 64 x 64 frame f it lies in; u, v in thousandths
FormationHit(frame, u, v) ==
    LET tx == Min(383, Max(0, FloorDiv(((frame % 6) * 1000 + u) * 64, 1000)))
        ty == Min(383, Max(0, FloorDiv(((frame \div 6) * 1000 + v) * 64, 1000)))
        dx == tx - (tx \div 64) * 64 - 32
        dy == ty - (ty \div 64) * 64 - 32
        fidx == (ty \div 64) * 6 + (tx \div 64)
    IN (dx * dx + dy * dy) * 100 < 64 * fidx * fidx

\* whether the footprint offset (dx, dy) of a tlou emitter raises its cell
TlouHit(s, e, gx, gy, radius, dx, dy) ==
    LET midx == ((gy + dy) * 4) * s.width + (gx + dx) * 4
        lx == FloorDiv(dx * 1000, radius)
        ly == FloorDiv(dy * 1000, radius)
        rx == FloorDiv(lx * Cos(e.rotation) - ly * Sin(e.rotation), 1000)
        ry == FloorDiv(lx * Sin(e.rotation) + ly * Cos(e.rotation), 1000)
        frame == Min(35, FloorDiv(e.age * 15, 1000))
    IN /\ ~(s.hasMask /\ MaskIsZero(s, midx))
       /\ rx >= -1000 /\ rx <= 1000 /\ ry >= -1000 /\ ry <= 1000
       /\ FormationHit(frame, FloorDiv(rx, 2) + 500, FloorDiv(ry, 2) + 500)

\* the lerp towards the target height 2.5, n times
RECURSIVE TlouLerp(_, _, _)
TlouLerp(h, n, dt) ==
    IF n <= 0 \/ h >= 2500 THEN h
    ELSE TlouLerp(h + FloorDiv((2500 - h) * dt, 100), n - 1, dt)

\* the projection of one tlou emitter into the grid g.  radius is 40 * e.scale
\* grid cells; cell idx is written once for every offset (dx, dy) of the
\* footprint with (gy + dy) * w + (gx + dx) = idx
TlouProject(s, g, e, gx, gy, radius, dt) ==
    [idx \in DOMAIN g |->
        LET hits == {dy \in -radius .. radius :
                       LET dx == idx - (gy + dy) * s.gridWidth - gx
                       IN /\ dx >= -radius /\ dx <= radius
                          /\ TlouHit(s, e, gx, gy, radius, dx, dy)}
        IN TlouLerp(g[idx], Cardinality(hits), dt)]

RECURSIVE TlouEmitters(_, _, _, _)
TlouEmitters(s, st, i, dt) ==
    IF i < 1 THEN st
    ELSE LET e0 == st.emitters[i]
         IN IF e0.type # "tlou" THEN TlouEmitters(s, st, i - 1, dt)
            ELSE
             LET e == [e0 EXCEPT !.age = @ + dt]
                 whole == (40 * e.scale) % 100 = 0
                 radius == (40 * e.scale) \div 100
                 g == IF e.age > e.duration \/ ~whole THEN st.ng
                      ELSE TlouProject(s, st.ng, e, FloorDiv(e.x, 4000), FloorDiv(e.y, 4000),
                                       radius, dt)
             IN TlouEmitters(s, [emitters |-> [st.emitters EXCEPT ![i] = e], ng |-> g],
                             i - 1, dt)

updateTLOU(s, dt) ==
    LET st == TlouEmitters(s, [emitters |-> s.emitters, ng |-> s.grid],
                           Len(s.emitters), dt)
    IN [s EXCEPT !.emitters = st.emitters, !.grid = st.ng]

(***************************************************************************)
(* Vector drip heads.                                                      *)
(***************************************************************************)
\* drip head i of the list (counted from 1) in one step of dt milliseconds
DripTick(s, i, dt) ==
    LET h0 == s.dripHeads[i]
        \* noise(head.x * 0.05, head.y * 0.05 + this.seed)
        n == noise(s, FloorDiv(h0.x, 20), FloorDiv(h0.y, 20) + s.seed)
        vy == h0.vy + FloorDiv(s.gravityStrength * dt, 10000)
        meander == FloorDiv((n - 50) * 5 * (100 - s.viscosity) * dt, 100000)
        vx == FloorDiv((h0.vx + meander) * 9, 10)
        x == h0.x + FloorDiv(vx * dt, 1000)
        y == h0.y + FloorDiv(vy * dt, 1000)
        speed == ISqrt(vx * vx + vy * vy)
        width == h0.width - FloorDiv((5000 + speed * 50) * dt * 8, 10000)
        blocked == s.hasMask /\ InCanvas(s, x, y) /\ s.maskData[y * s.width + x] = 0
        branch == width > 3000 /\ Rnd(s.seed) < 2
        h == [h0 EXCEPT !.prevX = h0.x, !.prevY = h0.y, !.x = x, !.y = y,
                        !.vx = vx, !.vy = vy,
                        !.width = IF branch THEN FloorDiv(width * 7, 10) ELSE width,
                        !.active = ~blocked /\ width > 500 /\ y <= s.height]
        child == [ x |-> x, y |-> y, prevX |-> x, prevY |-> y,
                   vx |-> vx + FloorDiv((Rnd(s.seed + 1) - 50) * 50, 100),
                   vy |-> FloorDiv(vy * 8, 10),
                   width |-> FloorDiv(width * 6, 10), active |-> TRUE ]
    IN IF ~h0.active
       THEN [s EXCEPT !.dripHeads = Splice(s.dripHeads, i - 1)]
       ELSE [s EXCEPT !.dripHeads =
                          IF branch THEN Append([s.dripHeads EXCEPT ![i] = h], child)
                          ELSE [s.dripHeads EXCEPT ![i] = h],
                      !.seed = IF width > 3000
                               THEN (IF branch THEN s.seed + 2 ELSE s.seed + 1)
                               ELSE s.seed]

RECURSIVE DripHeadLoop(_, _, _, _)
DripHeadPass(s, hi, lo, dt, n) ==
    CASE n.seed >= s.seed -> DripHeadLoop(n, (hi + lo) \div 2, lo, dt)

DripHeadLoop(s, hi, lo, dt) ==
    IF hi < lo THEN s
    ELSE IF hi = lo THEN DripTick(s, hi, dt)
    ELSE DripHeadPass(s, hi, lo, dt, DripHeadLoop(s, hi, (hi + lo) \div 2 + 1, dt))

updateVectorDrip(s, dt) == DripHeadLoop(s, Len(s.dripHeads), 1, dt)

(***************************************************************************)
(* step and update.                                                        *)
(***************************************************************************)
\* step(dt), dt in milliseconds
step(s0, dt) ==
    LET s == EmitterLoop(s0, Len(s0.emitters), 1, dt)
    IN IF s.mode = "experimental" THEN updateExperimental(s, dt)
       ELSE IF s.mode = "smart" THEN updateSmartExpansion(s, dt)
       ELSE IF s.mode = "vector-drip" THEN updateVectorDrip(s, dt)
       ELSE IF s.mode = "tlou" THEN updateTLOU(s, dt)
       ELSE LET r == IF s.mode \in {"floor", "one-click"}
                     THEN applyRepulsion(s, dt) ELSE s
            IN ParticleLoop(r, Len(r.particles), 1, dt)

RECURSIVE StepTimes(_, _, _)
StepPass(s, dt, n, t) ==
    CASE t.seed >= s.seed -> StepTimes(t, dt, n - 1)

StepTimes(s, dt, n) ==
    IF n <= 0 THEN s ELSE StepPass(s, dt, n, step(s, dt))

\* update(dt): substeps steps of dt * timeScale / substeps each
update(s, dt) ==
    IF s.paused THEN s
    ELSE StepTimes(s, FloorDiv(FloorDiv(dt * s.timeScale, 100), s.substeps), s.substeps)


(***************************************************************************)
(* Snapshots.                                                              *)
(***************************************************************************)
\* getState(): the parameters a snapshot carries
getState(s) ==
    [ width |-> s.width, height |-> s.height, mode |-> s.mode,
      spawnMode |-> s.spawnMode, viscosity |-> s.viscosity, density |-> s.density,
      gravityStrength |-> s.gravityStrength, spawnRate |-> s.spawnRate,
      spawnVelocity |-> s.spawnVelocity, spawnDirection |-> s.spawnDirection,
      spreadAngle |-> s.spreadAngle,
      particleSize |-> FloorDiv(s.particleSize - 4, 2),
      color |-> s.color, opacity |-> s.opacity, turbulence |-> s.turbulence,
      material |-> s.material, surfaceTension |-> s.surfaceTension,
      timeScale |-> s.timeScale, substeps |-> s.substeps ]

(***************************************************************************)
(* The state of the model.                                                 *)
(***************************************************************************)
VARIABLES
    sim,    \* the FluidSimulator the driver owns
    twin,   \* a second FluidSimulator, fed the same calls as the first
    app,    \* the fields of the driver (App)
    last,   \* the last call, its arguments and a census of the engine before it
    ops     \* the number of calls so far

vars == << sim, twin, app, last, ops >>

Modes ==
    {"wall", "floor", "one-click", "ballistic", "smart", "experimental",
     "vector-drip", "tlou"}

\* where the pointer may be: on the canvas and off it
SpawnPoints == { << 8, 8 >>, << -3, 8 >> }

\* the mask brush: centre and radius in half pixels
MaskCentres == { << 16, 16 >> }
MaskRadii == { 4 }

\* the aim of a ballistic shot, in degrees
AimAngles == { 0, 270 }

\* step sizes in milliseconds
StepSizes == { 100 }

\* the offset the engine under test draws
EngineOffsets == { 123 }

RECURSIVE SumTo(_, _)
SumTo(f, n) == IF n < 0 THEN 0 ELSE f[n] + SumTo(f, n - 1)

\* the mass on the grid
GridMass(s) == SumTo(s.grid, s.gridWidth * s.gridHeight - 1)

\* what a call finds: the sizes of the lists, the mask flag, the grid's mass
Census(s) ==
    [ particles |-> Len(s.particles), emitters |-> Len(s.emitters),
      dripHeads |-> Len(s.dripHeads), hasMask |-> s.hasMask, mass |-> GridMass(s) ]

Call(op, x, y, r, flag, name) ==
    [ op |-> op, x |-> x, y |-> y, r |-> r, flag |-> flag, name |-> name,
      before |-> Census(sim) ]

\* reset() rewinds the seed, so the draws are counted from the seed
Within(s) == s.seed - InitialSeed <= MaxDraws

Ready == ops < MaxOps /\ Within(sim)

Becomes(s) == Within(s) /\ sim' = s

Log(call) ==
    /\ last' = call
    /\ ops' = ops + 1
    /\ UNCHANGED << twin, app >>

\* the fields of App its constructor sets, before init() runs
NewApp ==
    [ eventLog |-> << >>, simulationTime |-> 0, accumulator |-> 0,
      isSpawning |-> FALSE, spawnPosition |-> << 0, 0 >>,
      drawModeActive |-> FALSE, isDrawingShape |-> FALSE, isAiming |-> FALSE ]

(***************************************************************************)
(* The engine under its public operations.                                 *)
(***************************************************************************)
Init ==
    /\ sim \in {NewSimulator(CanvasW, CanvasH, off) : off \in EngineOffsets}
    /\ twin = sim
    /\ app = NewApp
    /\ last = Call("new", 0, 0, 0, FALSE, "")
    /\ ops = 0

Spawn ==
    \E pt \in SpawnPoints :
        /\ Ready
        /\ Becomes(spawn(sim, pt[1], pt[2]))
        /\ Log(Call("spawn", pt[1], pt[2], 0, FALSE, ""))

SpawnPool ==
    \E pt \in SpawnPoints :
        /\ Ready
        /\ Becomes(spawnPool(sim, pt[1], pt[2]))
        /\ Log(Call("spawnPool", pt[1], pt[2], 0, FALSE, ""))

SpawnExperimental ==
    \E pt \in SpawnPoints :
        /\ Ready
        /\ Becomes(spawnExperimental(sim, pt[1], pt[2]))
        /\ Log(Call("spawnExperimental", pt[1], pt[2], 0, FALSE, ""))

SpawnBallistic ==
    \E angle \in AimAngles :
        /\ Ready
        /\ Becomes(spawnBallistic(sim, 8, 8, angle, 30))
        /\ Log(Call("spawnBallistic", 8, 8, angle, FALSE, ""))

Step ==
    \E dt \in StepSizes :
        /\ Ready
        /\ Becomes(step(sim, dt))
        /\ Log(Call("step", 0, 0, dt, FALSE, ""))

SetMode ==
    \E m \in Modes, off \in EngineOffsets :
        /\ Ready
        /\ Becomes(setMode(sim, m, off))
        /\ Log(Call("setMode", 0, 0, 0, FALSE, m))

Reset ==
    \E off \in EngineOffsets :
        /\ Ready
        /\ Becomes(reset(sim, off))
        /\ Log(Call("reset", 0, 0, 0, FALSE, ""))

UpdateMask ==
    \E c \in MaskCentres, r \in MaskRadii, erase \in BOOLEAN :
        /\ Ready
        /\ Becomes(updateMask(sim, c[1], c[2], r, erase))
        /\ Log(Call("updateMask", c[1], c[2], r, erase, ""))

ClearMask ==
    /\ Ready
    /\ Becomes(clearMask(sim))
    /\ Log(Call("clearMask", 0, 0, 0, FALSE, ""))

SetSpawnMode ==
    \E m \in {"spray", "drop"} :
        /\ Ready
        /\ Becomes(setSpawnMode(sim, m))
        /\ Log(Call("setSpawnMode", 0, 0, 0, FALSE, m))

Next ==
    \/ Spawn
    \/ SpawnPool
    \/ SpawnExperimental
    \/ SpawnBallistic
    \/ Step
    \/ SetMode
    \/ Reset
    \/ UpdateMask
    \/ ClearMask
    \/ SetSpawnMode

Spec == Init /\ [][Next]_vars

(***************************************************************************)
(* Configuration: the setters, the material presets, resize and the        *)
(* snapshot.  Ratios are in hundredths, angles in degrees.                 *)
(***************************************************************************)
\* the setters whose body is this.<field> = val, and the field each one sets
PlainSetters ==
    [ setTurbulence |-> "turbulence", setPoolingRandomness |-> "poolingRandomness",
      setParticleLifetime |-> "particleLifetime",
      setInfiniteLifetime |-> "infiniteLifetime",
      setSizeRandomness |-> "sizeRandomness", setTimeScale |-> "timeScale",
      setCaliber |-> "activeCaliber", setSpawnMode |-> "spawnMode",
      setSpawnDirection |-> "spawnDirection", setViscosity |-> "viscosity",
      setDensity |-> "density", setGravity |-> "gravityStrength",
      setSurfaceTension |-> "surfaceTension", setSpawnRate |-> "spawnRate",
      setSpawnVelocity |-> "spawnVelocity", setSpreadAngle |-> "spreadAngle",
      setOpacity |-> "opacity", setColor |-> "color" ]

\* the call of the plain setter named name with argument val
Set(s, name, val) == [s EXCEPT ![PlainSetters[name]] = val]

setSubsteps(s, val) == [s EXCEPT !.substeps = Max(1, val)]

\* the presets of applyMaterial; tension and turbulence are there where the
\* preset names them
Presets ==
    [ water |-> [color |-> "#2b95ff", viscosity |-> 10, density |-> 40, opacity |-> 60,
                 tension |-> 40],
      blood |-> [color |-> "#7a0000", viscosity |-> 50, density |-> 80, opacity |-> 95,
                 tension |-> 60, turbulence |-> 40],
      oil |-> [color |-> "#1a1a1a", viscosity |-> 40, density |-> 55, opacity |-> 98,
               tension |-> 50],
      honey |-> [color |-> "#dca600", viscosity |-> 80, density |-> 80, opacity |-> 90,
                 tension |-> 80],
      slime |-> [color |-> "#52ff00", viscosity |-> 60, density |-> 65, opacity |-> 80,
                 tension |-> 60],
      chocolate |-> [color |-> "#3e2723", viscosity |-> 70, density |-> 70, opacity |-> 100,
                     tension |-> 60] ]

applyMaterial(s, mat) ==
    IF mat \in DOMAIN Presets
    THEN LET p == Presets[mat]
         IN [s EXCEPT !.material = mat,
                      !.color = p.color,
                      !.viscosity = p.viscosity,
                      !.density = p.density,
                      !.opacity = p.opacity,
                      !.surfaceTension = IF p.tension # 0 THEN p.tension ELSE 30,
                      !.turbulence = IF "turbulence" \in DOMAIN p THEN p.turbulence ELSE 0]
    ELSE [s EXCEPT !.material = mat]

\* new Uint8Array(width * height) throws a RangeError for a negative length
AllocationFails(w, h) == w * h < 0

\* resize(width, height): every buffer is allocated anew, the lists stay; when
\* the first allocation throws, the two dimensions are all that was assigned
resize(s, w, h) ==
    IF AllocationFails(w, h) THEN [s EXCEPT !.width = w, !.height = h]
    ELSE
    initRoughness(
      [s EXCEPT !.width = w, !.height = h,
                !.wetMap = Zeros(w * h),
                !.gridWidth = GridDim(w), !.gridHeight = GridDim(h),
                !.grid = Zeros(GridDim(w) * GridDim(h)),
                !.permeabilityMap = Zeros(GridDim(w) * GridDim(h)),
                !.maskData = Zeros(w * h),
                !.hasMask = FALSE])

\* the keys setState has a line for, in the order of its lines
StateLines ==
    << "width", "mode", "spawnMode", "viscosity", "density", "gravityStrength", "spawnRate",
       "spawnVelocity", "spawnDirection", "spreadAngle", "particleSize", "color", "opacity",
       "turbulence", "material", "surfaceTension", "timeScale", "substeps",
       "particleLifetime", "infiniteLifetime", "sizeRandomness", "poolingRandomness" >>

\* the plain setter the line of a key calls
StateSetters ==
    [ spawnMode |-> "setSpawnMode", viscosity |-> "setViscosity", density |-> "setDensity",
      gravityStrength |-> "setGravity", spawnRate |-> "setSpawnRate",
      spawnVelocity |-> "setSpawnVelocity", spawnDirection |-> "setSpawnDirection",
      spreadAngle |-> "setSpreadAngle", color |-> "setColor", opacity |-> "setOpacity",
      turbulence |-> "setTurbulence", surfaceTension |-> "setSurfaceTension",
      timeScale |-> "setTimeScale", particleLifetime |-> "setParticleLifetime",
      infiniteLifetime |-> "setInfiniteLifetime", sizeRandomness |-> "setSizeRandomness",
      poolingRandomness |-> "setPoolingRandomness" ]

\* the line of setState for the key k of the snapshot st: width, mode,
\* spawnMode, color and material are tested for truth, the others for
\* !== undefined
StateLine(s, st, k, off) ==
    CASE k = "width" -> IF st.width # 0 THEN resize(s, st.width, st.height) ELSE s
      [] k = "mode" -> IF st.mode # "" THEN setMode(s, st.mode, off) ELSE s
      [] k = "material" -> IF st.material # "" THEN applyMaterial(s, st.material) ELSE s
      [] k \in {"spawnMode", "color"} -> IF st[k] # "" THEN Set(s, StateSetters[k], st[k]) ELSE s
      [] k = "particleSize" -> setParticleSize(s, st.particleSize)
      [] k = "substeps" -> setSubsteps(s, st.substeps)
      [] OTHER -> Set(s, StateSetters[k], st[k])

\* the lines StateLines[n..] of setState applied to s
RECURSIVE Restore(_, _, _, _)
Restore(s, st, n, off) ==
    IF n > Len(StateLines) THEN s
    ELSE Restore(IF StateLines[n] \in DOMAIN st THEN StateLine(s, st, StateLines[n], off) ELSE s,
                 st, n + 1, off)

\* setState(st) for a snapshot st; off is the Math.random() draw of the reset
\* that setMode makes
setState(s, st, off) == Restore(s, st, 1, off)

(***************************************************************************)
(* The engine under its setters and a snapshot taken to a fresh engine.    *)
(***************************************************************************)
\* arguments a caller may pass a setter: below the range, inside it, above it
SetterValues == { -5, 30, 250 }

SubstepValues == { 0, 2 }

Materials == { "blood", "water", "custom" }

Configured(s, call) ==
    /\ ops < MaxOps
    /\ sim' = s
    /\ last' = call
    /\ ops' = ops + 1
    /\ UNCHANGED << twin, app >>

SetViscosity ==
    \E v \in SetterValues :
        Configured(setViscosity(sim, v), Call("setViscosity", 0, 0, v, FALSE, ""))

SetTurbulence ==
    \E v \in SetterValues :
        Configured(Set(sim, "setTurbulence", v), Call("setTurbulence", 0, 0, v, FALSE, ""))

SetOpacity ==
    \E v \in SetterValues :
        Configured(Set(sim, "setOpacity", v), Call("setOpacity", 0, 0, v, FALSE, ""))

SetParticleSize ==
    \E v \in SetterValues :
        Configured(setParticleSize(sim, v), Call("setParticleSize", 0, 0, v, FALSE, ""))

SetSubsteps ==
    \E v \in SubstepValues :
        Configured(setSubsteps(sim, v), Call("setSubsteps", 0, 0, v, FALSE, ""))

ApplyMaterial ==
    \E m \in Materials :
        Configured(applyMaterial(sim, m), Call("applyMaterial", 0, 0, 0, FALSE, m))

\* a fresh engine is given the snapshot of the configured one
SetState ==
    \E off \in EngineOffsets :
        /\ ops < MaxOps
        /\ twin' = setState(NewSimulator(CanvasW, CanvasH, off), getState(sim), off)
        /\ last' = Call("setState", 0, 0, 0, FALSE, "")
        /\ ops' = ops + 1
        /\ UNCHANGED << sim, app >>

ConfigNext ==
    \/ SetViscosity
    \/ SetTurbulence
    \/ SetOpacity
    \/ SetParticleSize
    \/ SetSubsteps
    \/ ApplyMaterial
    \/ SetState

SpecConfig == Init /\ [][ConfigNext]_vars

(***************************************************************************)
(* The driver: App's handlers and frame loop.  Time is counted in halves   *)
(* of the fixed step of 1/60 s.  Panning and dragging the target block     *)
(* touch neither the engine nor the log and are left out; the mask brush   *)
(* of 40 pixels on the 1024 pixel canvas is 2 pixels on the model's.       *)
(***************************************************************************)
\* FIXED_STEP in half steps, and in milliseconds
FixedStep == 2
FixedStepMs == 16

\* the clamp of a frame's time, 0.25 s, in half steps
FrameClamp == 30

\* the time between two frames, in half steps
FrameTimes == { 1, 3 }

\* the calibers of the buttons pressed
DriverCalibers == { "556" }

logEvent(a, type, data) ==
    [a EXCEPT !.eventLog = Append(@, [time |-> a.simulationTime,
                                      type |-> type, data |-> data])]

\* resetLog without the line that zeroes the clock
resetLogKeepingTime(a, s) ==
    logEvent([a EXCEPT !.eventLog = << >>], "init", getState(s))

resetLog(a, s) ==
    logEvent([a EXCEPT !.eventLog = << >>, !.simulationTime = 0], "init", getState(s))

\* App.update(dt): the engine and the driver fields after it
AppUpdate(d) ==
    [ sim |-> update(IF d.app.isSpawning
                     THEN spawn(d.sim, d.app.spawnPosition[1], d.app.spawnPosition[2])
                     ELSE d.sim, FixedStepMs),
      app |-> IF d.app.isSpawning
              THEN logEvent(d.app, "spawn",
                            [x |-> d.app.spawnPosition[1], y |-> d.app.spawnPosition[2],
                             mode |-> "spray"])
              ELSE d.app ]

\* the while loop of the frame callback; n is the outcome of one pass
RECURSIVE FrameLoop(_)
FramePass(d, n) ==
    CASE n.sim.seed >= d.sim.seed ->
        FrameLoop([n EXCEPT !.app.simulationTime = @ + FixedStep,
                            !.app.accumulator = @ - FixedStep])

FrameLoop(d) ==
    IF d.app.accumulator < FixedStep THEN d ELSE FramePass(d, AppUpdate(d))

\* a frame callback without the clamp of the frame's time
LoopUnclamped(d, frameTime) ==
    FrameLoop([d EXCEPT !.app.accumulator = @ + frameTime])

\* the frame callback for a frame frameTime after the last one
Loop(d, frameTime) ==
    FrameLoop([d EXCEPT !.app.accumulator = @ + Min(frameTime, FrameClamp)])

\* the branch of handleStart that calls the engine at once
Clicked(d, pos, type, data) ==
    [ sim |-> CASE type = "drawShape" -> updateMask(d.sim, 2 * pos[1], 2 * pos[2], 4, FALSE)
                [] type = "spawnPool" -> spawnPool(d.sim, pos[1], pos[2])
                [] type = "spawnExperimental" -> spawnExperimental(d.sim, pos[1], pos[2])
                [] type = "spawn" -> spawn(d.sim, pos[1], pos[2]),
      app |-> logEvent([d.app EXCEPT !.spawnPosition = IF type = "drawShape" THEN @ ELSE pos,
                                     !.isDrawingShape = @ \/ type = "drawShape"],
                       type, data) ]

\* handleStart with the left button at canvas position pos
HandleStart(d, pos) ==
    IF d.app.drawModeActive
    THEN Clicked(d, pos, "drawShape", [x |-> pos[1], y |-> pos[2], radius |-> 2, erase |-> FALSE])
    ELSE IF d.sim.mode = "one-click"
    THEN Clicked(d, pos, "spawnPool", [x |-> pos[1], y |-> pos[2]])
    ELSE IF d.sim.mode = "experimental"
    THEN Clicked(d, pos, "spawnExperimental", [x |-> pos[1], y |-> pos[2]])
    ELSE IF d.sim.mode = "smart"
    THEN Clicked(d, pos, "spawn", [x |-> pos[1], y |-> pos[2], mode |-> "smart"])
    ELSE IF d.sim.mode = "grid-wall"
    THEN [ d EXCEPT !.app.spawnPosition = pos, !.app.isSpawning = TRUE ]
    ELSE IF d.sim.spawnMode = "drop"
    THEN Clicked(d, pos, "spawn", [x |-> pos[1], y |-> pos[2], mode |-> "drop"])
    ELSE [ d EXCEPT !.app.spawnPosition = pos, !.app.isSpawning = TRUE ]

\* handleMove at canvas position pos
HandleMove(d, pos) ==
    IF d.app.isAiming THEN d
    ELSE IF d.app.isDrawingShape
    THEN [ sim |-> updateMask(d.sim, 2 * pos[1], 2 * pos[2], 4, FALSE),
           app |-> logEvent(d.app, "drawShape",
                            [x |-> pos[1], y |-> pos[2], radius |-> 2, erase |-> FALSE]) ]
    ELSE IF d.app.isSpawning THEN [ d EXCEPT !.app.spawnPosition = pos ]
    ELSE d

\* handleEnd; a shot is aimed from canvas position pos at angle degrees
HandleEnd(d, pos, angle) ==
    LET e == IF d.app.isAiming
             THEN [ sim |-> spawnBallistic(d.sim, pos[1], pos[2], angle, 30),
                    app |-> logEvent([d.app EXCEPT !.isAiming = FALSE], "spawnBallistic",
                                     [x |-> pos[1], y |-> pos[2], angle |-> angle,
                                      caliber |-> d.sim.activeCaliber,
                                      distance |-> 30]) ]
             ELSE d
    IN [ e EXCEPT !.app.isSpawning = FALSE, !.app.isDrawingShape = FALSE ]

\* the click handler of a mode button
ModeClick(d, mode, off) ==
    [ sim |-> setMode(d.sim, mode, off),
      app |-> [logEvent(d.app, "setMode", mode) EXCEPT !.drawModeActive = FALSE] ]

\* the click handler of the Reset button
Restarted(a, s) ==
    [ sim |-> [s EXCEPT !.paused = FALSE], app |-> resetLog(a, s) ]

ResetClick(d, off) == Restarted(d.app, reset(d.sim, off))

Driver == [ sim |-> sim, app |-> app ]

Drives(d, call) ==
    /\ Within(d.sim)
    /\ sim' = d.sim
    /\ app' = d.app
    /\ last' = call
    /\ ops' = ops + 1
    /\ UNCHANGED twin

\* the constructor of App, which runs init()
DriverInit ==
    /\ sim \in {NewSimulator(CanvasW, CanvasH, off) : off \in EngineOffsets}
    /\ twin = sim
    /\ app = resetLog(NewApp, sim)
    /\ last = Call("new", 0, 0, 0, FALSE, "")
    /\ ops = 0

Frame ==
    \E frameTime \in FrameTimes :
        /\ Ready
        /\ Drives(Loop(Driver, frameTime), Call("frame", 0, 0, frameTime, FALSE, ""))

PointerDown ==
    \E pos \in SpawnPoints :
        /\ Ready
        /\ Drives(HandleStart(Driver, pos), Call("handleStart", pos[1], pos[2], 0, FALSE, ""))

PointerMove ==
    \E pos \in SpawnPoints :
        /\ Ready
        /\ Drives(HandleMove(Driver, pos), Call("handleMove", pos[1], pos[2], 0, FALSE, ""))

PointerUp ==
    \E angle \in AimAngles :
        /\ Ready
        /\ Drives(HandleEnd(Driver, << 8, 8 >>, angle), Call("handleEnd", 8, 8, angle, FALSE, ""))

\* mousedown on the target block, which only ballistic mode shows
TargetDown ==
    /\ Ready
    /\ sim.mode = "ballistic"
    /\ Drives([Driver EXCEPT !.app.isAiming = TRUE], Call("aim", 0, 0, 0, FALSE, ""))

ModeButton ==
    \E m \in Modes, off \in EngineOffsets :
        /\ Ready
        /\ Drives(ModeClick(Driver, m, off), Call("setMode", 0, 0, 0, FALSE, m))

SpawnModeButton ==
    \E m \in {"spray", "drop"} :
        /\ Ready
        /\ Drives([ sim |-> setSpawnMode(sim, m), app |-> logEvent(app, "setSpawnMode", m) ],
                  Call("setSpawnMode", 0, 0, 0, FALSE, m))

\* the click handler of a caliber button: the engine is told, the log is not
CaliberButton ==
    \E cal \in DriverCalibers :
        /\ Ready
        /\ Drives([Driver EXCEPT !.sim = Set(@, "setCaliber", cal)],
                  Call("setCaliber", 0, 0, 0, FALSE, cal))

DrawButton ==
    /\ Ready
    /\ Drives([Driver EXCEPT !.app.drawModeActive = ~@], Call("setDrawMode", 0, 0, 0, FALSE, ""))

ClearShapeButton ==
    /\ Ready
    /\ Drives([ sim |-> clearMask(sim), app |-> logEvent(app, "clearMask", << >>) ],
              Call("clearMask", 0, 0, 0, FALSE, ""))

PauseButton ==
    /\ Ready
    /\ Drives([Driver EXCEPT !.sim = togglePause(@)], Call("togglePause", 0, 0, 0, FALSE, ""))

ResetButton ==
    \E off \in EngineOffsets :
        /\ Ready
        /\ Drives(ResetClick(Driver, off), Call("reset", 0, 0, 0, FALSE, ""))

DriverNext ==
    \/ Frame
    \/ PointerDown
    \/ PointerMove
    \/ PointerUp
    \/ TargetDown
    \/ ModeButton
    \/ SpawnModeButton
    \/ CaliberButton
    \/ DrawButton
    \/ ClearShapeButton
    \/ PauseButton
    \/ ResetButton

SpecDriver == DriverInit /\ [][DriverNext]_vars

(***************************************************************************)
(* Two engines given the same seed and fed the same calls; each draws its  *)
(* own noise offset when it is built and whenever it is reset.             *)
(***************************************************************************)
Seeds == { 1337, 1400 }

PairModes == { "wall", "floor", "smart" }

PairReady == ops < MaxOps /\ Within(sim) /\ Within(twin)

Both(a, b, call) ==
    /\ Within(a)
    /\ Within(b)
    /\ sim' = a
    /\ twin' = b
    /\ last' = call
    /\ ops' = ops + 1
    /\ UNCHANGED app

PairInit ==
    /\ \E seed \in Seeds, offA \in NoiseOffsets, offB \in NoiseOffsets :
          /\ sim = setSeed(NewSimulator(CanvasW, CanvasH, offA), seed)
          /\ twin = setSeed(NewSimulator(CanvasW, CanvasH, offB), seed)
    /\ app = NewApp
    /\ last = Call("new", 0, 0, 0, FALSE, "")
    /\ ops = 0

PairSetMode ==
    \E m \in PairModes, offA \in NoiseOffsets, offB \in NoiseOffsets :
        /\ PairReady
        /\ Both(setMode(sim, m, offA), setMode(twin, m, offB), Call("setMode", 0, 0, 0, FALSE, m))

PairReset ==
    \E offA \in NoiseOffsets, offB \in NoiseOffsets :
        /\ PairReady
        /\ Both(reset(sim, offA), reset(twin, offB), Call("reset", 0, 0, 0, FALSE, ""))

PairSpawn ==
    \E pt \in SpawnPoints :
        /\ PairReady
        /\ Both(spawn(sim, pt[1], pt[2]), spawn(twin, pt[1], pt[2]),
                Call("spawn", pt[1], pt[2], 0, FALSE, ""))

PairSpawnPool ==
    \E pt \in SpawnPoints :
        /\ PairReady
        /\ Both(spawnPool(sim, pt[1], pt[2]), spawnPool(twin, pt[1], pt[2]),
                Call("spawnPool", pt[1], pt[2], 0, FALSE, ""))

PairStep ==
    \E dt \in StepSizes :
        /\ PairReady
        /\ Both(step(sim, dt), step(twin, dt), Call("step", 0, 0, dt, FALSE, ""))

PairNext ==
    \/ PairSetMode
    \/ PairReset
    \/ PairSpawn
    \/ PairSpawnPool
    \/ PairStep

SpecPair == PairInit /\ [][PairNext]_vars

(***************************************************************************)
(* The grid diffusion step on its own: a grid that holds mass, no emitter, *)
(* no mask.                                                                *)
(***************************************************************************)
GridModes == { "smart", "experimental" }

\* the heights two cells of the grid start with, in thousandths
Heights == { 40, 2400, 2500 }

\* step sizes in milliseconds: a substep of a frame, and a long step
GridStepSizes == { 5, 100 }

Viscosities == { 90 }

InteriorCells(s) == { Interior(s)[n] : n \in 1 .. Len(Interior(s)) }

GridStart(mode, off, a, ha, b, hb) ==
    [setMode(NewSimulator(CanvasW, CanvasH, off), mode, off)
        EXCEPT !.grid = [@ EXCEPT ![a] = ha, ![b] = hb]]

GridInit ==
    /\ sim \in { GridStart(mode, off, a, ha, b, hb) :
                    mode \in GridModes, off \in NoiseOffsets,
                    a \in InteriorCells(NewSimulator(CanvasW, CanvasH, 0)), ha \in Heights,
                    b \in InteriorCells(NewSimulator(CanvasW, CanvasH, 0)), hb \in Heights }
    /\ twin = sim
    /\ app = NewApp
    /\ last = Call("new", 0, 0, 0, FALSE, "")
    /\ ops = 0

GridStep ==
    \E dt \in GridStepSizes :
        /\ Ready
        /\ Becomes(step(sim, dt))
        /\ Log(Call("step", 0, 0, dt, FALSE, ""))

GridSetViscosity ==
    \E v \in Viscosities :
        /\ Ready
        /\ Becomes(setViscosity(sim, v))
        /\ Log(Call("setViscosity", 0, 0, v, FALSE, ""))

GridNext ==
    \/ GridStep
    \/ GridSetViscosity

SpecGrid == GridInit /\ [][GridNext]_vars

(***************************************************************************)
(* Properties of the engine.                                               *)
(***************************************************************************)
Ids(q) == [i \in 1 .. Len(q) |-> q[i].id]

\* the tags of the particles pushed while nextId went from a to b
Fresh(a, b) == [i \in 1 .. b - a |-> a + i - 1]

LastN(q, n) == SubSeq(q, Max(1, Len(q) - n + 1), Len(q))

GridCells(s) == 0 .. s.gridWidth * s.gridHeight - 1

AllZero(f) == \A k \in DOMAIN f : f[k] = 0

\* C2: after any step the store holds at most maxParticles particles.
StoreWithinCapacity ==
    last.op = "step" => Len(sim.particles) <= sim.maxParticles

\* C3: in wall mode spawn evicts oldest-first: the store after a spawn call is
\* the last maxParticles particles of the store before it followed by the
\* particles the call pushed, in spawn order.
EvictionOldestFirst ==
    [][ (last'.op = "spawn" /\ sim.mode = "wall")
        => Ids(sim'.particles)
           = LastN(Ids(sim.particles) \o Fresh(sim.nextId, sim'.nextId),
                   sim.maxParticles) ]_vars

\* a wall-mode spawn has filled the store and the first-spawned particle is gone
WallStoreTurnedOver ==
    /\ last.op = "spawn"
    /\ sim.mode = "wall"
    /\ Len(sim.particles) = sim.maxParticles
    /\ sim.particles[1].id > 1
    /\ last.before.particles = sim.maxParticles

\* C4: after every step no particle of the store has mass <= 0.2 or lies
\* beyond the 100 pixel margin on the left, right, top or bottom.
NoDeadOrStrayParticle ==
    last.op = "step"
    => \A i \in 1 .. Len(sim.particles) :
          /\ sim.particles[i].mass > MassEpsilon
          /\ sim.particles[i].x >= -OobMargin
          /\ sim.particles[i].x <= sim.width + OobMargin
          /\ sim.particles[i].y >= -OobMargin
          /\ sim.particles[i].y <= sim.height + OobMargin

\* C5: after updateMask(x, y, r, erase) every in-canvas cell (i, j) with
\* (i - x)^2 + (j - y)^2 <= r^2 is open (1) if erase is false and blocked (0)
\* if it is true.  last.x, last.y, last.r are in half pixels.
PaintCoversDisc ==
    last.op = "updateMask"
    => \A i \in 0 .. sim.width - 1, j \in 0 .. sim.height - 1 :
          (2 * i - last.x) * (2 * i - last.x) + (2 * j - last.y) * (2 * j - last.y)
             <= last.r * last.r
          => sim.maskData[j * sim.width + i] = (IF last.flag THEN 0 ELSE 1)

\* C7: with a mask active, after a step of smart or experimental mode every
\* grid cell whose mask sample is blocked holds no mass.
BlockedCellsHoldNothing ==
    (last.op = "step" /\ sim.mode \in {"smart", "experimental"} /\ sim.hasMask)
    => \A idx \in GridCells(sim) :
          CellBlocked(sim, idx % sim.gridWidth, idx \div sim.gridWidth)
          => sim.grid[idx] = 0

\* C8: with a mask active a point outside the canvas counts as blocked:
\* spawnPool and spawnExperimental at such a point create no emitter.
OutsideCanvasIsBlocked ==
    (/\ last.op \in {"spawnPool", "spawnExperimental"}
     /\ last.before.hasMask
     /\ ~InCanvas(sim, last.x, last.y))
    => Len(sim.emitters) = last.before.emitters

Emptied(s) ==
    /\ s.particles = << >>
    /\ s.emitters = << >>
    /\ AllZero(s.grid)
    /\ AllZero(s.wetMap)

\* C9: setMode(m) leaves the particle, emitter and drip-head lists empty, the
\* grid and the wet map zero and the mask cleared; reset() clears particles,
\* emitters, grid and wet map and leaves the mask as it was.
ModeSwitchClears ==
    [][ /\ last'.op = "setMode"
           => /\ Emptied(sim')
              /\ sim'.dripHeads = << >>
              /\ sim'.mode = last'.name
              /\ ~sim'.hasMask
              /\ AllZero(sim'.maskData)
        /\ last'.op = "reset"
           => /\ Emptied(sim')
              /\ sim'.hasMask = sim.hasMask
              /\ sim'.maskData = sim.maskData ]_vars

\* setMode was called on an engine holding particles and a painted mask
ModeSwitchedWhileBusy ==
    /\ last.op = "setMode"
    /\ last.before.particles > 0
    /\ last.before.hasMask
    /\ ~sim.hasMask

\* C10: in every state of the driver the event log is non-empty, its first
\* record has type 'init' and time 0 and carries a getState() snapshot of the
\* engine as it was built, and the times of the records never decrease.
EventLogWellFormed ==
    /\ Len(app.eventLog) >= 1
    /\ app.eventLog[1].type = "init"
    /\ app.eventLog[1].time = 0
    /\ DOMAIN app.eventLog[1].data = DOMAIN getState(sim)
    /\ app.eventLog[1].data.width = sim.width
    /\ app.eventLog[1].data.height = sim.height
    /\ \A i \in 1 .. Len(app.eventLog) - 1 :
           app.eventLog[i].time <= app.eventLog[i + 1].time

\* a press on the canvas was logged after the clock had advanced
LogRestartedAndGrown ==
    /\ last.op = "handleStart"
    /\ Len(app.eventLog) >= 2
    /\ app.eventLog[Len(app.eventLog)].time > 0
    /\ app.eventLog[Len(app.eventLog)].time < app.simulationTime + 1
    /\ \E i \in 1 .. Len(app.eventLog) : app.eventLog[i].type \in {"spawn", "drawShape"}

\* C1: two engines given the same seed and fed the same calls hold the same
\* particles, the same emitters and the same grid after every step, whatever
\* noise offsets the two of them drew.
SameSeedSameTrajectory ==
    last.op = "step" =>
        /\ sim.particles = twin.particles
        /\ sim.emitters = twin.emitters
        /\ sim.grid = twin.grid

NoActiveEmitter(s) == \A n \in 1 .. Len(s.emitters) : s.emitters[n].type # s.mode

\* C6: with no emitter of the active grid type and no mask, a step of a grid
\* mode leaves the sum of the grid cells as it was, and no cell gives away more
\* than it held: no cell ends below zero.
DiffusionConservesMass ==
    [][(/\ last'.op = "step"
        /\ sim.mode \in GridModes
        /\ NoActiveEmitter(sim)
        /\ ~sim.hasMask)
       => /\ GridMass(sim') = GridMass(sim)
          /\ \A c \in DOMAIN sim'.grid : sim'.grid[c] >= 0]_vars

\* a step moved mass from the interior of the grid onto its border
MassReachedBorder ==
    /\ last.op = "step"
    /\ sim.mode \in GridModes
    /\ NoActiveEmitter(sim)
    /\ ~sim.hasMask
    /\ last.before.mass > 0
    /\ \E c \in DOMAIN sim.grid : c \notin InteriorCells(sim) /\ sim.grid[c] > 0

(***************************************************************************)
(* The engine under ballistic shots, with the store at its full capacity.  *)
(***************************************************************************)
\* this.maxParticles of a new engine
StoreCapacity == 6000

\* the names setCaliber may be given: the presets and a name that is none
CaliberNames == { "22lr", "9mm", "45acp", "556", "12ga", "44mag" }

\* the distance of the target block, in hundredths
Distances == { 0, 30, 100 }

BallisticInit ==
    /\ sim \in {[NewSimulator(CanvasW, CanvasH, off) EXCEPT !.maxParticles = StoreCapacity] :
                   off \in EngineOffsets}
    /\ twin = sim
    /\ app = NewApp
    /\ last = Call("new", 0, 0, 0, FALSE, "")
    /\ ops = 0

SetCaliber ==
    \E c \in CaliberNames :
        /\ Ready
        /\ Becomes(Set(sim, "setCaliber", c))
        /\ Log(Call("setCaliber", 0, 0, 0, FALSE, c))

\* a shot from (8, 8) to the right at target distance d
Shoot ==
    \E d \in Distances :
        /\ Ready
        /\ Becomes(spawnBallistic(sim, 8, 8, 0, d))
        /\ Log(Call("spawnBallistic", 8, 8, d, FALSE, sim.activeCaliber))

BallisticNext ==
    \/ SetCaliber
    \/ Shoot

SpecBallistic == BallisticInit /\ [][BallisticNext]_vars

(***************************************************************************)
(* The engine with one emitter that has been stepped for a long time.  An  *)
(* emitter above and left of the canvas injects nothing into the grid, so  *)
(* the engine after any number of steps differs from the engine after the  *)
(* spawn in the age of the emitter only.                                   *)
(***************************************************************************)
\* the grid modes whose step reads the age of an emitter for nothing but the
\* test against its duration
EmitterModes == { "experimental", "tlou" }

\* where the old emitter is
FarPoint == << -40, -40 >>

\* how long before the end of its duration the old emitter is, in milliseconds
TimeLeft == { 50, 130 }

EmitterStepSizes == { 30, 100 }

Aged(s, left) == [s EXCEPT !.emitters[1].age = s.emitters[1].duration - left]

EmitterInit ==
    /\ sim \in {Aged(spawn(setMode(NewSimulator(CanvasW, CanvasH, off), m, off),
                           FarPoint[1], FarPoint[2]), left) :
                   off \in EngineOffsets, m \in EmitterModes, left \in TimeLeft}
    /\ twin = sim
    /\ app = NewApp
    /\ last = Call("new", 0, 0, 0, FALSE, "")
    /\ ops = 0

EmitterSpawn ==
    \E pt \in SpawnPoints :
        /\ Ready
        /\ Becomes(spawn(sim, pt[1], pt[2]))
        /\ Log(Call("spawn", pt[1], pt[2], 0, FALSE, ""))

EmitterStep ==
    \E dt \in EmitterStepSizes :
        /\ Ready
        /\ Becomes(step(sim, dt))
        /\ Log(Call("step", 0, 0, dt, FALSE, ""))

EmitterNext ==
    \/ EmitterSpawn
    \/ EmitterStep

SpecEmitters == EmitterInit /\ [][EmitterNext]_vars

(***************************************************************************)
(* The ExportManager: applyEvent and generateReplayFlipbook.  Time is in   *)
(* halves of the step of 1/60 s, as in the driver; the comparisons with    *)
(* the frame's target time are made in thousandths of that.                *)
(***************************************************************************)
\* setMaskFromImage(img): img is the alpha channel of the image as drawn on
\* the mask canvas
setMaskFromImage(s, img) ==
    [s EXCEPT !.hasMask = TRUE,
              !.maskData = [i \in 0 .. s.width * s.height - 1 |->
                               IF img[i] > 50 THEN 1 ELSE 0]]

\* the kinds of the switch of applyEvent whose case calls the plain setter of
\* the same name
ReplayedSetters == DOMAIN PlainSetters \ {"setCaliber"}

\* the kinds the switch of applyEvent has a case for
KnownKinds ==
    ReplayedSetters \cup
    { "init", "spawn", "setParticleSize", "setMode", "applyMaterial", "setSubsteps",
      "spawnPool", "spawnTLOU", "spawnBallistic", "spawnExperimental", "resize",
      "drawShape", "clearMask", "setMaskFromImage" }

\* the case of the switch of applyEvent for an event of a known kind; off is
\* the Math.random() draw of a reset the call may make.  Lengths of a
\* drawShape record are in pixels of the model.
applyCase(s, event, off) ==
    LET type == event.type
        data == event.data
    IN CASE type = "init" -> setState(s, data, off)
         [] type = "spawn" -> spawn(s, data.x, data.y)
         [] type \in ReplayedSetters -> Set(s, type, data)
         [] type = "setParticleSize" -> setParticleSize(s, data)
         [] type = "setMode" -> setMode(s, data, off)
         [] type = "applyMaterial" -> applyMaterial(s, data)
         [] type = "setSubsteps" -> setSubsteps(s, data)
         [] type = "spawnPool" -> spawnPool(s, data.x, data.y)
         [] type = "spawnTLOU" -> spawnTLOU(s, data.x, data.y)
         [] type = "spawnBallistic" ->
                spawnBallistic(IF data.caliber # "" THEN Set(s, "setCaliber", data.caliber) ELSE s,
                               data.x, data.y, data.angle, data.distance)
         [] type = "spawnExperimental" -> spawnExperimental(s, data.x, data.y)
         [] type = "resize" -> resize(s, data.width, data.height)
         [] type = "drawShape" ->
                updateMask(s, 2 * data.x, 2 * data.y, 2 * data.radius, data.erase)
         [] type = "clearMask" -> clearMask(s)
         [] type = "setMaskFromImage" -> setMaskFromImage(s, data)

\* an applyEvent whose switch has a default case that clears the engine
applyEventStrict(s, event, off) ==
    IF event.type \in KnownKinds THEN applyCase(s, event, off) ELSE reset(s, off)

\* applyEvent(sim, event): the switch has no default case
applyEvent(s, event, off) ==
    IF event.type \in KnownKinds THEN applyCase(s, event, off) ELSE s

\* 0.0001 s, 0.001 s and 0.1 s in thousandths of a half step
TargetSlack == 12
ShortestDuration == 120
SafetyDuration == 12000

\* new ExportManager(simulator): the engine its helpers read, the engine a
\* render put aside, and the engines the renders so far have drawn
NewManager == [ simulator |-> "live", originalSim |-> "live", drawn |-> << >> ]

\* the locals of generateReplayFlipbook before its loop over the frames;
\* duration, kept as it was passed, is in thousandths of a half step, and
\* length is events.length at the call
NewExport(events, duration, frameCount) ==
    [ pc |-> "catchUp", frameCount |-> frameCount, duration |-> duration,
      length |-> Len(events), yielded |-> FALSE,
      totalDuration |-> IF duration <= ShortestDuration THEN SafetyDuration ELSE duration,
      f |-> 0, simTime |-> 0, nextEventIndex |-> 0, stepsSinceYield |-> 0,
      applied |-> << >>, steps |-> 0 ]

\* simTime < targetTime + 0.0001 for targetTime = (f / (frameCount - 1)) *
\* totalDuration; with one frame the quotient is 0 / 0, and no number is
\* less than NaN
BehindTarget(x) ==
    /\ x.frameCount # 1
    /\ x.simTime * 1000 * (x.frameCount - 1)
         < x.f * x.totalDuration + TargetSlack * (x.frameCount - 1)

\* nextEventIndex < events.length && events[nextEventIndex].time <= simTime
EventDue(x, events) ==
    /\ x.nextEventIndex < Len(events)
    /\ events[x.nextEventIndex + 1].time <= x.simTime

\* the locals after await this.applyEvent(sim, event); the function resumes
\* in a microtask, before any task of the page, unless applyEvent waited for
\* an image to load
EventApplied(x, event) ==
    [x EXCEPT !.applied = Append(@, [index |-> x.nextEventIndex + 1, steps |-> x.steps]),
              !.nextEventIndex = @ + 1,
              !.yielded = event.type = "setMaskFromImage"]

\* the locals after sim.update(STEP) and the lines that follow it
Stepped(x) ==
    [x EXCEPT !.simTime = @ + FixedStep,
              !.steps = @ + 1,
              !.stepsSinceYield = IF @ + 1 >= 5 THEN 0 ELSE @ + 1,
              !.yielded = x.stepsSinceYield + 1 >= 5]

\* this.simulator = sim after originalSim = this.simulator
SwapIn(m, engine) == [m EXCEPT !.originalSim = m.simulator, !.simulator = engine]

\* renderToContext and the other helpers draw this.simulator
Draw(m) == [m EXCEPT !.drawn = Append(@, m.simulator)]

\* this.simulator = originalSim
SwapOut(m) == [m EXCEPT !.simulator = m.originalSim]

\* a render that yields to the event loop before the reference is put back
RenderFrameYielding(m, engine) == Draw(SwapIn(m, engine))

\* the render of one frame, from the swap to the swap back
RenderFrame(m, engine) == SwapOut(Draw(SwapIn(m, engine)))

\* the locals after the render of frame f and the yield that follows it
FrameDone(x) ==
    [x EXCEPT !.f = @ + 1,
              !.stepsSinceYield = 0,
              !.yielded = TRUE,
              !.pc = IF x.f + 1 < x.frameCount THEN "catchUp" ELSE "done"]

(***************************************************************************)
(* An export of a recorded session while the page stays live.              *)
(***************************************************************************)
\* the snapshot of the init record
FirstState == getState(NewSimulator(CanvasW, CanvasH, 123))

Event(time, type, data) == [ time |-> time, type |-> type, data |-> data ]

\* recorded sessions: the init record and what followed it; "setBloom" is a
\* kind of a later version of the driver
ReplayLogs ==
    { << Event(0, "init", FirstState) >>,
      << Event(0, "init", FirstState),
         Event(0, "spawn", [x |-> 8, y |-> 8, mode |-> "drop"]),
         Event(2, "setBloom", 40),
         Event(2, "setViscosity", 50),
         Event(4, "spawn", [x |-> 8, y |-> 8, mode |-> "drop"]) >>,
      << Event(0, "init", FirstState),
         Event(0, "setMode", "smart"),
         Event(0, "spawn", [x |-> 8, y |-> 8, mode |-> "smart"]),
         Event(2, "setBloom", 40),
         Event(4, "drawShape", [x |-> 8, y |-> 8, radius |-> 2, erase |-> FALSE]) >> }

\* the simulation time at which the export is asked for, in half steps
Durations == { 0, 4, 6 }

FrameCounts == { 1, 2, 3 }

ReplayInit ==
    /\ sim \in {NewSimulator(CanvasW, CanvasH, off) : off \in EngineOffsets}
    /\ twin = setSeed(NewSimulator(CanvasW, CanvasH, 123), 1337)
    /\ \E log \in ReplayLogs, d \in Durations, n \in FrameCounts :
          /\ log[Len(log)].time <= d
          /\ app = [NewApp EXCEPT !.eventLog = log, !.simulationTime = d]
                     @@ [ manager |-> NewManager, export |-> NewExport(log, d * 1000, n) ]
    /\ last = Call("generateReplayFlipbook", 0, 0, 0, FALSE, "")
    /\ ops = 0

Exporting(s, a, call) ==
    /\ app.export.pc = "catchUp"
    /\ Within(s)
    /\ twin' = s
    /\ app' = a
    /\ last' = call
    /\ UNCHANGED << sim, ops >>

\* one pass of the inner while loop: the next event is applied
ReplayEvent ==
    \E off \in EngineOffsets :
        /\ BehindTarget(app.export)
        /\ EventDue(app.export, app.eventLog)
        /\ Exporting(applyEvent(twin, app.eventLog[app.export.nextEventIndex + 1], off),
                     [app EXCEPT !.export =
                                    EventApplied(@, app.eventLog[app.export.nextEventIndex + 1])],
                     Call("applyEvent", 0, 0, app.export.nextEventIndex + 1, FALSE,
                          app.eventLog[app.export.nextEventIndex + 1].type))

\* the rest of a pass of the catch-up loop: the ghost engine is stepped
ReplayStep ==
    /\ BehindTarget(app.export)
    /\ ~EventDue(app.export, app.eventLog)
    /\ Exporting(update(twin, FixedStepMs), [app EXCEPT !.export = Stepped(@)],
                 Call("replayStep", 0, 0, FixedStepMs, FALSE, ""))

\* the frame is rendered from the ghost engine
ReplayRender ==
    /\ ~BehindTarget(app.export)
    /\ Exporting(twin, [app EXCEPT !.manager = RenderFrame(@, "ghost"),
                                   !.export = FrameDone(@)],
                 Call("render", 0, 0, app.export.f, FALSE, ""))

\* what the page does while the export is suspended at a yield
Live(s, a, call) ==
    /\ Ready
    /\ app.export.yielded
    /\ sim' = s
    /\ app' = a
    /\ last' = call
    /\ ops' = ops + 1
    /\ UNCHANGED twin

\* a frame callback of the page between two segments of the export
LiveFrame ==
    \E frameTime \in FrameTimes :
        Live(Loop(Driver, frameTime).sim,
             [app EXCEPT !.simulationTime = Loop(Driver, frameTime).app.simulationTime,
                         !.accumulator = Loop(Driver, frameTime).app.accumulator],
             Call("frame", 0, 0, frameTime, FALSE, ""))

\* exportTexture renders the engine the manager refers to
LiveTexture ==
    Live(sim, [app EXCEPT !.manager = Draw(@)], Call("exportTexture", 0, 0, 0, FALSE, ""))

\* a second export renders a frame from its own engine
OtherRender ==
    Live(sim, [app EXCEPT !.manager = RenderFrame(@, "ghost")],
         Call("otherRender", 0, 0, 0, FALSE, ""))

ReplayNext ==
    \/ ReplayEvent
    \/ ReplayStep
    \/ ReplayRender
    \/ LiveFrame
    \/ LiveTexture
    \/ OtherRender

SpecReplay == ReplayInit /\ [][ReplayNext]_vars

(***************************************************************************)
(* The canvas-size inputs of the driver.  A text is the sequence of its    *)
(* characters; the canvas of 1024 pixels is the model's of 16.             *)
(***************************************************************************)
DigitValue ==
    ("0" :> 0) @@ ("1" :> 1) @@ ("2" :> 2) @@ ("3" :> 3) @@ ("4" :> 4) @@
    ("5" :> 5) @@ ("6" :> 6) @@ ("7" :> 7) @@ ("8" :> 8) @@ ("9" :> 9)

\* the digits of text from position i on, read into acc; any tells whether a
\* digit was read
RECURSIVE ReadDigits(_, _, _, _)
ReadDigits(text, i, acc, any) ==
    IF i > Len(text) \/ text[i] \notin DOMAIN DigitValue
    THEN [ n |-> acc, any |-> any ]
    ELSE ReadDigits(text, i + 1, acc * 10 + DigitValue[text[i]], TRUE)

\* parseInt(text): a sign, then the digits up to the first other character;
\* NaN when there is no digit
parseInt(text) ==
    LET neg == Len(text) > 0 /\ text[1] = "-"
        r == ReadDigits(text, IF neg THEN 2 ELSE 1, 0, FALSE)
    IN [ nan |-> ~r.any, n |-> IF neg THEN -r.n ELSE r.n ]

\* the size the inputs ask for when they hold no number
DefaultSize == 16

\* parseInt(text) || 1024
SizeOf(text) ==
    IF parseInt(text).nan \/ parseInt(text).n = 0 THEN DefaultSize ELSE parseInt(text).n

\* updateSize: the change handler of both inputs; a resize that throws ends it
\* before the record is logged
updateSize(d, wText, hText) ==
    [ sim |-> resize(d.sim, SizeOf(wText), SizeOf(hText)),
      app |-> IF AllocationFails(SizeOf(wText), SizeOf(hText)) THEN d.app
              ELSE logEvent(d.app, "resize",
                            [width |-> SizeOf(wText), height |-> SizeOf(hText)]) ]

\* what the width input may hold
WidthTexts == { << >>, << "a" >>, << "0" >>, << "-", "5" >>, << "8" >>, << "1", "2", "p", "x" >> }

\* what the height input may hold
HeightTexts == { << >>, << "0" >>, << "8" >>, << "1", "6" >> }

\* last.x and last.y are the numbers read from the inputs, 0 where there is none
SizeChange ==
    \E wText \in WidthTexts, hText \in HeightTexts :
        /\ Ready
        /\ Drives(updateSize(Driver, wText, hText),
                  Call("resize", IF parseInt(wText).nan THEN 0 ELSE parseInt(wText).n,
                       IF parseInt(hText).nan THEN 0 ELSE parseInt(hText).n, 0, FALSE, ""))

\* the page goes on on a canvas of a size an allocation took
SizedFrame == sim.width > 0 /\ sim.height > 0 /\ Frame

SizedPointerDown == sim.width > 0 /\ sim.height > 0 /\ PointerDown

ResizeNext ==
    \/ SizeChange
    \/ SizedFrame
    \/ SizedPointerDown

SpecResize == DriverInit /\ [][ResizeNext]_vars

(***************************************************************************)
(* Particles on a masked floor.                                            *)
(***************************************************************************)
\* number of engine calls on the masked floor
MaskOps == 5

FloorModes == { "floor", "one-click" }

\* a floor with a shape painted on it
\* the radius of the shape, in half pixels
ShapeRadii == { 4, 12 }

MaskInit ==
    /\ sim \in { updateMask(setMode(NewSimulator(CanvasW, CanvasH, off), m, off),
                            c[1], c[2], r, FALSE) :
                   off \in EngineOffsets, m \in FloorModes, c \in MaskCentres, r \in ShapeRadii }
    /\ twin = sim
    /\ app = NewApp
    /\ last = Call("updateMask", 0, 0, 0, FALSE, "")
    /\ ops = 0

MaskReady == ops < MaskOps /\ Within(sim)

MaskSpawn ==
    \E pt \in SpawnPoints :
        /\ MaskReady
        /\ Becomes(spawn(sim, pt[1], pt[2]))
        /\ Log(Call("spawn", pt[1], pt[2], 0, FALSE, ""))

MaskStep ==
    \E dt \in StepSizes :
        /\ MaskReady
        /\ Becomes(step(sim, dt))
        /\ Log(Call("step", 0, 0, dt, FALSE, ""))

MaskNext ==
    \/ MaskSpawn
    \/ MaskStep

SpecMask == MaskInit /\ [][MaskNext]_vars

(***************************************************************************)
(* applyRepulsion on the particles that spawning and stepping leave.       *)
(***************************************************************************)
RepulsionInit ==
    /\ sim \in { setMode(NewSimulator(CanvasW, CanvasH, off), m, off) :
                   off \in EngineOffsets, m \in FloorModes }
    /\ twin = sim
    /\ app = NewApp
    /\ last = Call("setMode", 0, 0, 0, FALSE, "")
    /\ ops = 0

RepelSpawn ==
    \E pt \in SpawnPoints :
        /\ Ready
        /\ Becomes(spawn(sim, pt[1], pt[2]))
        /\ Log(Call("spawn", pt[1], pt[2], 0, FALSE, ""))

RepelStep ==
    \E dt \in StepSizes :
        /\ Ready
        /\ Becomes(step(sim, dt))
        /\ Log(Call("step", 0, 0, dt, FALSE, ""))

Repel ==
    \E dt \in StepSizes :
        /\ Ready
        /\ Becomes(applyRepulsion(sim, dt))
        /\ Log(Call("applyRepulsion", 0, 0, dt, FALSE, ""))

RepulsionNext ==
    \/ RepelSpawn
    \/ RepelStep
    \/ Repel

SpecRepulsion == RepulsionInit /\ [][RepulsionNext]_vars

(***************************************************************************)
(* The spatial hash on a canvas several cells wide.                        *)
(***************************************************************************)
\* the width of the canvas: four cells of the hash
HashWidth == 64

\* where the two particles lie on the row y = 8
HashColumns == { 1, 19, 21, 39, 58 }

\* the values the size slider passes to setParticleSize
SizeValues == { 0, 3 }

\* a particle at rest at (x, 8)
Resting(x) == Particle(x, 8, x, 8, 0, 0, 10000, 10000, 10000)

HashInit ==
    /\ sim \in { Push(Push(setParticleSize(setMode(NewSimulator(HashWidth, CanvasH, off),
                                                   m, off), v),
                           Resting(x1)), Resting(x2)) :
                   off \in EngineOffsets, m \in FloorModes, v \in SizeValues,
                   x1 \in HashColumns, x2 \in HashColumns }
    /\ twin = sim
    /\ app = NewApp
    /\ last = Call("setParticleSize", 0, 0, 0, FALSE, "")
    /\ ops = 0

HashRepel ==
    \E dt \in StepSizes :
        /\ Ready
        /\ Becomes(applyRepulsion(sim, dt))
        /\ Log(Call("applyRepulsion", 0, 0, dt, FALSE, ""))

HashStep ==
    \E dt \in StepSizes :
        /\ Ready
        /\ Becomes(step(sim, dt))
        /\ Log(Call("step", 0, 0, dt, FALSE, ""))

HashNext ==
    \/ HashRepel
    \/ HashStep

SpecHash == HashInit /\ [][HashNext]_vars

(***************************************************************************)
(* The frame loop under short and long frames.                             *)
(***************************************************************************)
\* the time between two frames, in half steps: below, at and above the clamp
LongFrameTimes == { 1, 3, 29, 30, 40, 100 }

LongFrame ==
    \E frameTime \in LongFrameTimes :
        /\ Ready
        /\ Drives(Loop(Driver, frameTime), Call("frame", 0, 0, frameTime, FALSE, ""))

FramesNext ==
    \/ LongFrame
    \/ PointerDown
    \/ PointerUp

SpecFrames == DriverInit /\ [][FramesNext]_vars

(***************************************************************************)
(* An export while the page takes input: the user acts at the yields.      *)
(***************************************************************************)
\* a click on a spawn-mode button while the export is suspended
LiveSpawnMode ==
    \E m \in {"spray", "drop"} :
        Live(setSpawnMode(sim, m), logEvent(app, "setSpawnMode", m),
             Call("setSpawnMode", 0, 0, 0, FALSE, m))

LiveExportNext ==
    \/ ReplayNext
    \/ LiveSpawnMode

SpecLiveExport == ReplayInit /\ [][LiveExportNext]_vars

(***************************************************************************)
(* A session of the page and the export of its log.  executed counts the   *)
(* updates the live engine did not skip since the log began, loggedAt holds that count as it   *)
(* was when each record of the log was written.                            *)
(***************************************************************************)
\* number of handler calls of a session
SessionOps == 3

\* the frame count the export is asked for
SessionFrameCounts == { 2, 3 }

\* the modes of the mode buttons pressed
SessionModes == { "floor" }

SessionInit ==
    /\ sim \in {NewSimulator(CanvasW, CanvasH, off) : off \in EngineOffsets}
    /\ twin = sim
    /\ app = resetLog(NewApp, sim)
               @@ [ manager |-> NewManager,
                    export |-> [NewExport(<< >>, 0, 2) EXCEPT !.pc = "idle"],
                    executed |-> 0, loggedAt |-> << 0 >> ]
    /\ last = Call("new", 0, 0, 0, FALSE, "")
    /\ ops = 0

\* the driver after a handler that took it to d and ran the live engine for
\* ran updates; restarted tells whether the handler began a new log
Session(d, call, ran, restarted) ==
    /\ app.export.pc = "idle"
    /\ ops < SessionOps
    /\ Within(d.sim)
    /\ sim' = d.sim
    /\ app' = [d.app EXCEPT
                 !.executed = IF restarted THEN 0 ELSE @ + ran,
                 !.loggedAt =
                     IF restarted THEN << 0 >>
                     ELSE @ \o [i \in 1 .. Len(d.app.eventLog) - Len(app.eventLog) |->
                                  app.executed]]
    /\ last' = call
    /\ ops' = ops + 1
    /\ UNCHANGED twin

SessionFrame ==
    \E frameTime \in FrameTimes :
        /\ ~app.isSpawning
        /\ Session(Loop(Driver, frameTime), Call("frame", 0, 0, frameTime, FALSE, ""),
                   IF sim.paused THEN 0
                   ELSE (Loop(Driver, frameTime).app.simulationTime - app.simulationTime)
                          \div FixedStep,
                   FALSE)

SessionPause ==
    Session([Driver EXCEPT !.sim = togglePause(@)], Call("togglePause", 0, 0, 0, FALSE, ""),
            0, FALSE)

SessionSpawnMode ==
    \E m \in {"spray", "drop"} :
        Session([ sim |-> setSpawnMode(sim, m), app |-> logEvent(app, "setSpawnMode", m) ],
                Call("setSpawnMode", 0, 0, 0, FALSE, m), 0, FALSE)

SessionMode ==
    \E m \in SessionModes, off \in EngineOffsets :
        Session(ModeClick(Driver, m, off), Call("setMode", 0, 0, 0, FALSE, m), 0, FALSE)

\* the pointer goes down and up on the canvas with the shape brush on
SessionDraw ==
    \E pos \in SpawnPoints :
        Session(HandleEnd(HandleStart([Driver EXCEPT !.app.drawModeActive = TRUE], pos),
                          pos, 0),
                Call("drawShape", pos[1], pos[2], 0, FALSE, ""), 0, FALSE)

SessionReset ==
    \E off \in EngineOffsets :
        Session(ResetClick(Driver, off), Call("reset", 0, 0, 0, FALSE, ""), 0, TRUE)

\* exportFlipbookReplay: the log and the simulation time go to a new ghost
SessionExport ==
    \E n \in SessionFrameCounts :
        /\ app.export.pc = "idle"
        /\ twin' = setSeed(NewSimulator(CanvasW, CanvasH, 123), 1337)
        /\ app' = [app EXCEPT !.export = NewExport(app.eventLog,
                                                   app.simulationTime * 1000, n)]
        /\ last' = Call("generateReplayFlipbook", 0, 0, n, FALSE, "")
        /\ UNCHANGED << sim, ops >>

SessionNext ==
    \/ SessionFrame
    \/ SessionPause
    \/ SessionSpawnMode
    \/ SessionMode
    \/ SessionDraw
    \/ SessionReset
    \/ SessionExport
    \/ ReplayEvent
    \/ ReplayStep
    \/ ReplayRender

SpecSession == SessionInit /\ [][SessionNext]_vars

(***************************************************************************)
(* Properties of the configuration and of the snapshot.                    *)
(***************************************************************************)
\* the parameters a snapshot has to carry
FullParameterSet ==
    { "mode", "viscosity", "density", "gravityStrength", "spawnRate", "spawnVelocity",
      "spawnDirection", "spreadAngle", "particleSize", "color", "opacity", "turbulence",
      "material", "surfaceTension", "timeScale", "substeps", "particleLifetime",
      "infiniteLifetime", "sizeRandomness", "poolingRandomness", "noiseOffset" }

\* C12: the snapshot getState() returns, and with it the payload of the log's
\* init record, has a value for every parameter of the full parameter set and
\* for the run's noise offset.
SnapshotIsComplete ==
    /\ FullParameterSet \subseteq DOMAIN getState(sim)
    /\ app.eventLog[1].type = "init"
    /\ FullParameterSet \subseteq DOMAIN app.eventLog[1].data

\* C13: a fresh engine given setState(getState()) of a configured engine
\* returns the same snapshot, key for key.
SnapshotRoundTrip ==
    last.op = "setState" => getState(twin) = getState(sim)

\* C20: after any sequence of setter calls the particle size is >= 0, opacity,
\* viscosity and turbulence lie in [0, 1] and substeps is >= 1.
SettersClamp ==
    /\ sim.particleSize >= 0
    /\ sim.opacity >= 0 /\ sim.opacity <= 100
    /\ sim.viscosity >= 0 /\ sim.viscosity <= 100
    /\ sim.turbulence >= 0 /\ sim.turbulence <= 100
    /\ sim.substeps >= 1

(***************************************************************************)
(* Properties of the ballistic shot and of the emitters.                   *)
(***************************************************************************)
\* the preset a shot uses for the caliber named c
PresetOf(c) == IF c \in DOMAIN Calibers THEN Calibers[c] ELSE Calibers["9mm"]

MistShareIsMistRatio ==
    /\ Cardinality({ r \in 0 .. 99 : BallisticType(CaliberStats(sim), r) = "mist" })
          = CaliberStats(sim).mist
    /\ \A i \in 1 .. Len(sim.particles) :
          ~(sim.particles[i].isMist /\ sim.particles[i].isSplatter)

\* C14: an emitter of any type whose age exceeds its duration is absent from
\* the emitter list at the end of the step.
ExpiredEmittersAreGone ==
    last.op = "step"
    => \A i \in 1 .. Len(sim.emitters) : sim.emitters[i].age <= sim.emitters[i].duration

(***************************************************************************)
(* Properties of the replay.                                               *)
(***************************************************************************)
\* C11: applying an event whose kind applyEvent has no case for leaves the
\* ghost engine exactly as it was and does not end the replay: the index moves
\* to the next event and the export stays in its catch-up loop.
UnknownKindsAreSkipped ==
    [][(last'.op = "applyEvent" /\ last'.name \notin KnownKinds)
         => /\ twin' = twin
            /\ app'.export.nextEventIndex = app.export.nextEventIndex + 1
            /\ app'.export.pc = "catchUp"
            /\ app'.export.steps = app.export.steps]_vars

\* an export is over in which an event of an unknown kind was applied to an
\* engine that held fluid, a later event was applied after it and steps ran
\* after both
SkippedThenReplayed ==
    /\ app.export.pc = "done"
    /\ \E i, j \in 1 .. Len(app.export.applied) :
          /\ i < j
          /\ app.eventLog[app.export.applied[i].index].type \notin KnownKinds
          /\ app.eventLog[app.export.applied[j].index].type \in KnownKinds
          /\ app.export.steps > app.export.applied[j].steps
    /\ Len(twin.particles) > 0

\* the segments of generateReplayFlipbook
ExportSegments == { "applyEvent", "replayStep", "render" }

\* C15: no segment of generateReplayFlipbook changes the interactive engine,
\* and between any two segments the manager refers to the interactive engine,
\* so that whatever runs in between (a frame of the page, a texture export,
\* the render of a second export) draws and changes the engine it means to.
ExportKeepsToItsGhost ==
    /\ [](/\ app.manager.simulator = "live"
          /\ last.op = "exportTexture"
               => app.manager.drawn[Len(app.manager.drawn)] = "live")
    /\ [][last'.op \in ExportSegments => sim' = sim]_vars

\* a texture export has drawn the interactive engine in the middle of a
\* flipbook export that has rendered a frame from its ghost
TextureInMidExport ==
    /\ last.op = "exportTexture"
    /\ app.export.pc = "catchUp"
    /\ app.export.f >= 1
    /\ \E i \in 1 .. Len(app.manager.drawn) - 1 : app.manager.drawn[i] = "ghost"
    /\ app.manager.drawn[Len(app.manager.drawn)] = "live"

\* the events of the log with a time stamp up to the duration asked for
EventsInTime ==
    { i \in 1 .. Len(app.eventLog) : app.eventLog[i].time * 1000 <= app.export.duration }

\* C16: when generateReplayFlipbook is over, each event with a time stamp up
\* to the duration has been applied exactly once and in log order, each one
\* after the steps that start before its time stamp and before the others,
\* whatever the log, the duration and the positive frame count.
EveryEventReplayedOnce ==
    app.export.pc = "done"
    => /\ Len(app.export.applied) = Cardinality(EventsInTime)
       /\ \A i \in 1 .. Len(app.export.applied) :
             /\ app.export.applied[i].index = i
             /\ (app.export.applied[i].steps - 1) * FixedStep < app.eventLog[i].time
             /\ app.export.applied[i].steps * FixedStep >= app.eventLog[i].time

(***************************************************************************)
(* Properties of the record the driver keeps.                              *)
(***************************************************************************)
\* the handlers that call the engine operation they are named after
NamedHandlers == { "setMode", "setSpawnMode", "setCaliber", "clearMask" }

\* C17: every mutating operation the driver invokes on the engine, setCaliber
\* among them, appends exactly one record of the operation's kind to the log,
\* stamped with the simulation time of the call, and every kind in the log is
\* a kind applyEvent has a case for.
EveryMutationIsLogged ==
    /\ [](\A i \in 1 .. Len(app.eventLog) : app.eventLog[i].type \in KnownKinds)
    /\ [][last'.op \in NamedHandlers
            => /\ Len(app'.eventLog) = Len(app.eventLog) + 1
               /\ app'.eventLog[Len(app'.eventLog)].type = last'.op
               /\ app'.eventLog[Len(app'.eventLog)].time = app.simulationTime]_vars

(***************************************************************************)
(* Properties of the canvas-size inputs.                                   *)
(***************************************************************************)
\* C21: after a change of the canvas size both dimensions of the engine are
\* positive, and a dimension entered as zero, as a negative number or as no
\* number is 1024 (the model's 16).
SizeChangeDefaults ==
    last.op = "resize"
    => /\ sim.width > 0 /\ sim.height > 0
       /\ last.x <= 0 => sim.width = DefaultSize
       /\ last.y <= 0 => sim.height = DefaultSize

(***************************************************************************)
(* Properties of the masked floor.                                         *)
(***************************************************************************)
\* the cell of the in-canvas position (x, y) is blocked
BlockedAt(s, x, y) == InCanvas(s, x, y) /\ s.maskData[y * s.width + x] = 0

\* a particle that a step finds in a blocked cell it entered from an open one,
\* with mass and lifetime enough to outlast a step of dt
EnteredBlocked(s, p, dt) ==
    /\ BlockedAt(s, p.x, p.y)
    /\ InCanvas(s, p.prevX, p.prevY)
    /\ ~BlockedAt(s, p.prevX, p.prevY)
    /\ p.mass > MassEpsilon
    /\ p.life > 2 * dt

\* C22: on a masked floor a particle that is in a blocked cell and came there
\* from an open cell is still in the store after the step; only a particle
\* whose previous position is blocked too is removed.
EnteredParticleSurvives ==
    [][(last'.op = "step" /\ sim.mode \in FloorModes /\ sim.hasMask)
         => \A i \in 1 .. Len(sim.particles) :
               EnteredBlocked(sim, sim.particles[i], last'.r)
               => \E j \in 1 .. Len(sim'.particles) :
                     sim'.particles[j].id = sim.particles[i].id]_vars

(***************************************************************************)
(* Properties of applyRepulsion.                                           *)
(***************************************************************************)
\* the particles whose force the scan of particle k1 applies to it, in the
\* order of the scan: the interacting ones it visits, up to the cap
Applications(s, k1) ==
    LET hits == SelectSeq(ScanOrder(s, k1),
                          LAMBDA k2 : k2 # k1 /\ Interacts(s, s.particles[k1], s.particles[k2]))
    IN IF s.particles[k1].mass <= 0 THEN << >>
       ELSE SubSeq(hits, 1, Min(Len(hits), MaxInteractions))

\* how often a call applies the force of particle k2 to particle k1
Times(s, k1, k2) ==
    Cardinality({ n \in 1 .. Len(Applications(s, k1)) : Applications(s, k1)[n] = k2 })

\* C23: in a call of applyRepulsion the force of p2 is applied to p1 as often
\* as the force of p1 is applied to p2, wherever the particles are and however
\* many neighbours they have.
RepulsionIsSymmetric ==
    [][last'.op = "applyRepulsion"
         => \A k1, k2 \in 1 .. Len(sim.particles) :
               Times(sim, k1, k2) = Times(sim, k2, k1)]_vars

\* C24: the scan of a live particle applies the force of every other live
\* particle closer than the interaction distance of 4 x particleSize, unless
\* the scan counted its 20 interactions first.
ScanFindsEveryNeighbour ==
    [][last'.op = "applyRepulsion"
         => \A k1, k2 \in 1 .. Len(sim.particles) :
               (/\ k1 # k2
                /\ sim.particles[k1].mass > 0 /\ sim.particles[k2].mass > 0
                /\ Interacts(sim, sim.particles[k1], sim.particles[k2]))
               => \/ Times(sim, k1, k2) >= 1
                  \/ Len(Applications(sim, k1)) = MaxInteractions]_vars

(***************************************************************************)
(* Properties of the frame loop.                                           *)
(***************************************************************************)
\* the number of passes of the while loop of a frame
Passes == (app'.simulationTime - app.simulationTime) \div FixedStep

\* C25: a frame calls update a whole number k of times, at most 16 because
\* the frame's time is clamped to 0.25 s; the accumulator it leaves lies in
\* [0, 1/60), the simulation time has grown by exactly k fixed steps, and the
\* k steps use up the clamped time.  While spawning, each update logs a record.
FrameRunsWholeSteps ==
    [][last'.op = "frame"
         => /\ app'.simulationTime = app.simulationTime + Passes * FixedStep
            /\ Passes >= 0 /\ Passes <= 16
            /\ app'.accumulator >= 0 /\ app'.accumulator < FixedStep
            /\ Passes * FixedStep + app'.accumulator
                 = app.accumulator + Min(last'.r, FrameClamp)
            /\ app.isSpawning => Len(app'.eventLog) = Len(app.eventLog) + Passes]_vars

\* a frame longer than the clamp has run fifteen updates and left half a step
\* in the accumulator
LongFrameClamped ==
    /\ last.op = "frame"
    /\ last.r > FrameClamp
    /\ app.accumulator = 1
    /\ app.simulationTime >= FrameClamp
    /\ \E i \in 1 .. Len(app.eventLog) : app.eventLog[i].type = "spawn"

(***************************************************************************)
(* Properties of an export of a live page.                                 *)
(***************************************************************************)
\* C27: an export applies to its ghost engine only records that were in the
\* log when it started; a record appended while the export is suspended at a
\* yield is never applied.
ExportReplaysStartingLog ==
    \A i \in 1 .. Len(app.export.applied) :
        app.export.applied[i].index <= app.export.length

(***************************************************************************)
(* Properties of the replay of a session.                                  *)
(***************************************************************************)
\* C26: when the replay applies a record, the ghost engine has run as many
\* updates as the live engine had run when the record was logged, also in a
\* session that was paused for a while.
ReplayStepsAlign ==
    app.export.pc # "idle"
    => \A i \in 1 .. Len(app.export.applied) :
          app.export.applied[i].steps = app.loggedAt[app.export.applied[i].index]

\* C30: when the replay of the log is over, the ghost engine has the mask of
\* the live engine: the same hasMask and the same maskData in every cell,
\* whatever mask edits, mode switches and Reset presses the session had.
ReplayRebuildsMask ==
    (app.export.pc = "done" /\ app.export.nextEventIndex = Len(app.eventLog))
    => /\ twin.hasMask = sim.hasMask
       /\ twin.maskData = sim.maskData

(***************************************************************************)
(* The cells the emitters of the height grid write.                        *)
(***************************************************************************)
\* the cells << gx + dx, gy + dy >> of the footprint of an experimental
\* emitter at grid cell (gx, gy) whose offset passes the tests of the
\* injection loop and writes a cell of nextGrid
ExperimentalWrites(s, gx, gy, fp) ==
    { << gx + fp[n][1], gy + fp[n][2] >> :
        n \in UNION { ExperimentalHits(s, idx, gx, gy, fp) : idx \in DOMAIN s.grid } }

\* the same for the projection of the tlou emitter e, aged already
TlouWrites(s, e, gx, gy, radius) ==
    { c \in { << gx + dx, gy + dy >> : dx \in -radius .. radius, dy \in -radius .. radius } :
        /\ c[2] * s.gridWidth + c[1] \in DOMAIN s.grid
        /\ TlouHit(s, e, gx, gy, radius, c[1] - gx, c[2] - gy) }

\* the cells emitter e of engine s writes in a step of dt milliseconds
WritesOf(s, e, dt) ==
    IF s.mode = "experimental" /\ e.type = "experimental"
    THEN ExperimentalWrites(s, FloorDiv(e.x, 4000), FloorDiv(e.y, 4000), Footprint(3))
    ELSE IF s.mode = "tlou" /\ e.type = "tlou"
              /\ e.age + dt <= e.duration /\ (40 * e.scale) % 100 = 0
    THEN TlouWrites(s, [e EXCEPT !.age = @ + dt], FloorDiv(e.x, 4000), FloorDiv(e.y, 4000),
                    (40 * e.scale) \div 100)
    ELSE {}

\* the cells the emitters that outlive the emitter loop write
EmitterWrites(s, dt) ==
    UNION { WritesOf(s, EmitterLoop(s, Len(s.emitters), 1, dt).emitters[i], dt) :
              i \in 1 .. Len(EmitterLoop(s, Len(s.emitters), 1, dt).emitters) }

\* C28: a step of the experimental or the tlou grid writes, for its emitters,
\* only footprint cells whose column lies in [0, gridWidth) and whose row lies
\* in [0, gridHeight): no footprint cell beyond the left or the right edge is
\* written into the neighbouring row.
InjectionStaysInGrid ==
    [][last'.op = "step"
       => \A c \in EmitterWrites(sim, last'.r) :
             /\ c[1] >= 0 /\ c[1] < sim.gridWidth
             /\ c[2] >= 0 /\ c[2] < sim.gridHeight]_vars

(***************************************************************************)
(* The spawn operations and the configuration.                             *)
(***************************************************************************)
SpawnOperations ==
    { "spawn", "spawnBlob", "spawnBallistic", "spawnPool", "spawnExperimental",
      "spawnSmart", "spawnTLOU" }

\* C29: no spawn operation changes a configuration parameter: the snapshot of
\* getState() is the same before and after the call, in every mode.
SpawnKeepsConfiguration ==
    [][last'.op \in SpawnOperations => getState(sim') = getState(sim)]_vars
====
